---- MODULE Spec2Model ----
(***************************************************************************)
(* Model of the word-game room store (lib/game-store: GameStore with its   *)
(* in-memory and Supabase implementations and the liveness sweep) and of   *)
(* the session hook useMultiplayer (hooks/use-multiplayer.ts, the latest   *)
(* version of the hook, lines 895-1293).                                   *)
(*                                                                         *)
(* Time is counted in units of the sweep interval (30 s).  One room key is *)
(* modelled; callers may spell its code in upper or lower case.  The       *)
(* persistent store is modelled as accepting every field the hook writes   *)
(* (has_voted, has_submitted_clue, voteCounts, ...) and as returning the   *)
(* players of a room in insertion order; each store call is one step.      *)
(***************************************************************************)
EXTENDS Integers, Sequences, FiniteSets, TLC

\* ------------------------------------------------------------------ bounds
MaxTime == 5        \* the clock stops at this many sweep intervals
MaxIds == 3         \* player ids that generatePlayerId hands out
MaxRound == 3       \* rounds played before the model stops a game
MaxInFlight == 2    \* submitVote calls past their checks and not yet run
MaxTimers == 2      \* pending callbacks of one kind one client holds at a time
MaxPlayers == 4     \* players of the rooms the reveal is run on

\* ------------------------------------------------------- program constants
PLAYER_TIMEOUT == 4     \* 2 minutes, in units of the 30 s sweep interval
ROOM_TIMEOUT == 240     \* 2 hours, in units of the 30 s sweep interval
DefaultTotalPlayers == 6
DefaultImposterCount == 2
DefaultRoundTime == 10

Null == "null"
NoId == 0
NoVotes == << >>

\* ------------------------------------------------------------------ inputs
CodeInputs == {"ABC", "abc"}
NameInputs == {"Alice", "alice", "Bob", "Bob "}
Backends == {"memory", "supabase"}
Clients == {"c1", "c2", "c3"}
ClueInputs == {"hint", "tip"}

\* the playerName argument of each client's hook
ClientName == [c \in Clients |-> CASE c = "c1" -> "Alice" [] c = "c2" -> "Bob" [] OTHER -> "Cara"]

\* the roomCode argument of every hook: the page passes it upper-cased
HookRoomCode == "ABC"

\* String.prototype.toUpperCase on the room codes of CodeInputs
toUpperCase(s) == CASE s = "abc" -> "ABC" [] OTHER -> s

\* String.prototype.toLowerCase on the names of NameInputs and of the clients
toLowerCase(s) ==
  CASE s = "Alice" -> "alice"
    [] s = "Bob" -> "bob"
    [] s = "Bob " -> "bob "
    [] s = "Cara" -> "cara"
    [] s = "Dan" -> "dan"
    [] s = "Eve" -> "eve"
    [] OTHER -> s

\* String.prototype.trim on the same names
trim(s) == CASE s = "Bob " -> "Bob" [] OTHER -> s

VARIABLES
  backend,          \* isSupabaseConfigured(): "supabase", else "memory"
  gameRooms,        \* Map room id -> room (with its players), both backends
  playerSessions,   \* Map player id -> lastSeen (in-memory backend only)
  cleanupInterval,  \* TRUE once the sweep interval is installed
  swept,            \* TRUE once the sweep has run in the current interval
  now,              \* the clock
  nextId,           \* next id generatePlayerId returns
  ret,              \* outcome of the last call
  cIsAdmin,         \* per client: the isAdmin argument of useMultiplayer
  cPlayerId,        \* per client: the hook's playerId, NoId while not in a room
  cRoom,            \* per client: the hook's room state, {} for null
  voteCalls,        \* per client: submitVote calls past their checks, not yet run
  startTimer,       \* per client: pending setTimeout callbacks of startGame
  revealTimer,      \* per client: pending setTimeout callbacks of submitVote
  joinCalls,        \* per caller: the room a joinRoomSupabase call has read, {} for none
  conn              \* per client: the hook's connection state and its refs

storeVars == <<backend, gameRooms, playerSessions, cleanupInterval, swept, now, nextId, ret>>

hookVars == <<cIsAdmin, cPlayerId, cRoom, voteCalls, startTimer, revealTimer, joinCalls, conn>>

vars == <<storeVars, hookVars>>

\* ----------------------------------------------------------------- helpers
Min(S) == CHOOSE x \in S : \A y \in S : x <= y

Range(s) == {s[i] : i \in 1..Len(s)}

\* Object.assign(target, updates)
Assign(target, updates) ==
  [f \in (DOMAIN target) \cup (DOMAIN updates) |->
     IF f \in DOMAIN updates THEN updates[f] ELSE target[f]]

\* Array.prototype.findIndex, 0 when nothing matches; hits holds the indices
\* whose element passes the test
FindIndex(s, hits) ==
  IF \E i \in 1..Len(s) : i \in hits
    THEN Min({i \in 1..Len(s) : i \in hits})
    ELSE 0

\* Array.prototype.splice(i, 1)
RemoveAt(s, i) == [j \in 1..(Len(s) - 1) |-> IF j < i THEN s[j] ELSE s[j + 1]]

\* Map.prototype.delete
MapDelete(m, k) == [x \in (DOMAIN m) \ {k} |-> m[x]]

\* Map.prototype.set
MapSet(m, k, v) == [x \in (DOMAIN m) \cup {k} |-> IF x = k THEN v ELSE m[x]]

EmptyMap == [x \in {} |-> Null]

Ret(op, ok, pid, err) == [op |-> op, ok |-> ok, playerId |-> pid, err |-> err]

\* the settings a new room gets
DefaultSettings ==
  [totalPlayers |-> DefaultTotalPlayers, imposterCount |-> DefaultImposterCount,
   difficulty |-> "easy", roundTime |-> DefaultRoundTime]

\* the player record createRoom / joinRoom insert
NewPlayer(id, name, admin, t) ==
  [id |-> id, name |-> name, is_admin |-> admin, word |-> "", clue |-> "",
   votes |-> 0, is_eliminated |-> FALSE, has_voted |-> FALSE,
   has_submitted_clue |-> FALSE, last_seen |-> t]

\* the room record createRoom inserts
NewRoom(id, players, t) ==
  [id |-> id, players |-> players, settings |-> DefaultSettings,
   game_phase |-> "lobby", time_left |-> 0, round |-> 1, last_activity |-> t,
   eliminationResult |-> Null, gameWinner |-> Null,
   lastEliminatedPlayerId |-> NoId, voteCounts |-> NoVotes]

\* a store operation yields the new maps and what the call returns
Out(rooms, sessions, r) == [rooms |-> rooms, sessions |-> sessions, ret |-> r]

HasAdmin(players) == \E i \in 1..Len(players) : players[i].is_admin

\* room.players[0].is_admin = true
PromoteFirst(players) == [players EXCEPT ![1].is_admin = TRUE]

\* remainingPlayers[0] of a select that names no order: the database hands the
\* rows back in the order it holds them in, first being the index (in join
\* order) of the row that comes first among the rows left
FirstRows(b, rooms, roomCode) ==
  IF b = "supabase" /\ toUpperCase(roomCode) \in DOMAIN rooms
       /\ Len(rooms[toUpperCase(roomCode)].players) > 2
    THEN 1..(Len(rooms[toUpperCase(roomCode)].players) - 1)
    ELSE {1}

PromoteRow(players, first) ==
  [players EXCEPT ![IF first \in 1..Len(players) THEN first ELSE 1].is_admin = TRUE]

PromoteIfNoAdmin(players) ==
  IF ~HasAdmin(players) /\ Len(players) > 0 THEN PromoteFirst(players) ELSE players

\* ------------------------------------------------- in-memory implementation
createRoomMemory(rooms, sessions, roomCode, playerName, id, t) ==
  IF toUpperCase(roomCode) \in DOMAIN rooms
    THEN Out(rooms, sessions, Ret("createRoom", FALSE, NoId, "Room code already exists"))
    ELSE Out(MapSet(rooms, toUpperCase(roomCode),
                    NewRoom(toUpperCase(roomCode), <<NewPlayer(id, trim(playerName), TRUE, t)>>, t)),
             MapSet(sessions, id, t),
             Ret("createRoom", TRUE, id, ""))

joinRoomMemory(rooms, sessions, roomCode, playerName, id, t) ==
  LET upperRoomCode == toUpperCase(roomCode)
      trimmedName == trim(playerName)
  IN
  IF upperRoomCode \notin DOMAIN rooms
    THEN Out(rooms, sessions, Ret("joinRoom", FALSE, NoId, "not found"))
  ELSE
  LET room == rooms[upperRoomCode]
      SameName(p) == toLowerCase(p.name) = toLowerCase(trimmedName)
      existingPlayerIndex == FindIndex(room.players, {i_ \in 1..Len(room.players) : SameName(room.players[i_])})
  IN
  IF room.game_phase # "lobby"
    THEN Out(rooms, sessions, Ret("joinRoom", FALSE, NoId, "already in progress"))
  ELSE IF existingPlayerIndex # 0 /\ ~(t - room.players[existingPlayerIndex].last_seen > PLAYER_TIMEOUT)
    THEN \* the player is still active: reconnect
      LET existingPlayer == room.players[existingPlayerIndex]
          players2 == [room.players EXCEPT ![existingPlayerIndex].last_seen = t]
          room2 == [room EXCEPT !.players = players2, !.last_activity = t]
      IN Out(MapSet(rooms, upperRoomCode, room2),
             IF existingPlayer.id \in DOMAIN sessions
               THEN MapSet(sessions, existingPlayer.id, t) ELSE sessions,
             Ret("joinRoom", TRUE, existingPlayer.id, ""))
  ELSE
  LET \* an inactive player of the same name is spliced out
      players1 == IF existingPlayerIndex # 0
                    THEN RemoveAt(room.players, existingPlayerIndex) ELSE room.players
      sessions1 == IF existingPlayerIndex # 0
                     THEN MapDelete(sessions, room.players[existingPlayerIndex].id) ELSE sessions
      room1 == [room EXCEPT !.players = players1]
  IN
  IF Len(players1) >= room.settings.totalPlayers
    THEN Out(MapSet(rooms, upperRoomCode, room1), sessions1,
             Ret("joinRoom", FALSE, NoId, "full"))
    ELSE Out(MapSet(rooms, upperRoomCode,
                    [room1 EXCEPT !.players = Append(players1, NewPlayer(id, trimmedName, FALSE, t)),
                                  !.last_activity = t]),
             MapSet(sessions1, id, t),
             Ret("joinRoom", TRUE, id, ""))

\* gameRooms.get(roomCode.toUpperCase()) || null: the room, or no room
\* (the result is the set of rooms found, empty for null)
getRoomMemory(rooms, roomCode) ==
  IF toUpperCase(roomCode) \in DOMAIN rooms THEN {rooms[toUpperCase(roomCode)]} ELSE {}

updateRoomMemory(rooms, sessions, roomCode, updates, t) ==
  IF toUpperCase(roomCode) \notin DOMAIN rooms
    THEN Out(rooms, sessions, Ret("updateRoom", FALSE, NoId, "null"))
    ELSE Out(MapSet(rooms, toUpperCase(roomCode),
                    Assign(Assign(rooms[toUpperCase(roomCode)], updates), [last_activity |-> t])),
             sessions, Ret("updateRoom", TRUE, NoId, ""))

updatePlayerMemory(rooms, sessions, roomCode, playerId, updates, t) ==
  IF toUpperCase(roomCode) \notin DOMAIN rooms
    THEN Out(rooms, sessions, Ret("updatePlayer", FALSE, NoId, "null"))
  ELSE
  LET room == rooms[toUpperCase(roomCode)]
      IsIt(p) == p.id = playerId
      playerIndex == FindIndex(room.players, {i_ \in 1..Len(room.players) : IsIt(room.players[i_])})
  IN
  IF playerIndex = 0
    THEN Out(rooms, sessions, Ret("updatePlayer", FALSE, NoId, "null"))
    ELSE Out(MapSet(rooms, toUpperCase(roomCode),
                    [room EXCEPT !.players[playerIndex] =
                                    Assign(Assign(room.players[playerIndex], updates), [last_seen |-> t]),
                                 !.last_activity = t]),
             IF playerId \in DOMAIN sessions THEN MapSet(sessions, playerId, t) ELSE sessions,
             Ret("updatePlayer", TRUE, playerId, ""))

removePlayerMemory(rooms, sessions, roomCode, playerId, t) ==
  IF toUpperCase(roomCode) \notin DOMAIN rooms
    THEN Out(rooms, sessions, Ret("removePlayer", FALSE, NoId, "null"))
  ELSE
  LET room == rooms[toUpperCase(roomCode)]
      NotIt(p) == p.id # playerId
      players1 == SelectSeq(room.players, NotIt)
      sessions1 == MapDelete(sessions, playerId)
      rooms1 == MapSet(rooms, toUpperCase(roomCode), [room EXCEPT !.players = players1])
  IN
  IF Len(players1) = 0
    THEN \* gameRooms.delete(roomCode): the code as the caller spelled it
         Out(MapDelete(rooms1, roomCode), sessions1, Ret("removePlayer", FALSE, NoId, "null"))
    ELSE Out(MapSet(rooms, toUpperCase(roomCode),
                    [room EXCEPT !.players = PromoteIfNoAdmin(players1), !.last_activity = t]),
             sessions1, Ret("removePlayer", TRUE, NoId, ""))

heartbeatMemory(rooms, sessions, playerId, t) ==
  IF playerId \notin DOMAIN sessions
    THEN Out(rooms, sessions, Ret("heartbeat", FALSE, NoId, ""))
  ELSE
  LET roomId == "ABC"   \* session.roomId: every session belongs to the one room key
      IsIt(p) == p.id = playerId
      idx == IF roomId \in DOMAIN rooms THEN FindIndex(rooms[roomId].players, {i_ \in 1..Len(rooms[roomId].players) : IsIt(rooms[roomId].players[i_])}) ELSE 0
  IN Out(IF idx # 0
           THEN MapSet(rooms, roomId,
                       [rooms[roomId] EXCEPT !.players[idx].last_seen = t, !.last_activity = t])
           ELSE rooms,
         MapSet(sessions, playerId, t),
         Ret("heartbeat", TRUE, playerId, ""))

\* the liveness sweep, second loop: the sessions in insertion (= id) order
RECURSIVE SweepPlayers(_, _, _, _)
SweepPlayers(rooms, sessions, ids, t) ==
  IF ids = {} THEN Out(rooms, sessions, Ret("sweep", TRUE, NoId, ""))
  ELSE
  LET playerId == Min(ids)
      rest == ids \ {playerId}
      roomId == "ABC"
  IN
  IF ~(t - sessions[playerId] > PLAYER_TIMEOUT)
    THEN SweepPlayers(rooms, sessions, rest, t)
  ELSE
  LET sessions1 == MapDelete(sessions, playerId) IN
  IF roomId \notin DOMAIN rooms
    THEN SweepPlayers(rooms, sessions1, rest, t)
  ELSE
  LET room == rooms[roomId]
      NotIt(p) == p.id # playerId
      players1 == SelectSeq(room.players, NotIt)
  IN
  IF Len(players1) = 0
    THEN SweepPlayers(MapDelete(rooms, roomId), sessions1, rest, t)
    ELSE SweepPlayers(MapSet(rooms, roomId,
                             [room EXCEPT !.players = IF ~HasAdmin(players1)
                                                        THEN PromoteFirst(players1) ELSE players1,
                                          !.last_activity = t]),
                      sessions1, rest, t)

\* the liveness sweep: rooms past ROOM_TIMEOUT go with their sessions, then
\* the sessions past PLAYER_TIMEOUT go
cleanupSweep(rooms, sessions, t) ==
  LET old == {r \in DOMAIN rooms : t - rooms[r].last_activity > ROOM_TIMEOUT}
      rooms1 == [r \in (DOMAIN rooms) \ old |-> rooms[r]]
      sessions1 == IF old = {} THEN sessions ELSE EmptyMap
  IN SweepPlayers(rooms1, sessions1, DOMAIN sessions1, t)

\* ---------------------------------------------------- Supabase implementation
createRoomSupabase(rooms, sessions, roomCode, playerName, id, t) ==
  LET upperRoomCode == toUpperCase(roomCode) IN
  IF upperRoomCode \in DOMAIN rooms
    THEN
      LET existingRoom == rooms[upperRoomCode]
          IsAdminOfName(p) == p.is_admin /\ toLowerCase(p.name) = toLowerCase(playerName)
          adminIndex == FindIndex(existingRoom.players, {i_ \in 1..Len(existingRoom.players) : IsAdminOfName(existingRoom.players[i_])})
      IN IF adminIndex # 0
           THEN Out(MapSet(rooms, upperRoomCode,
                           [existingRoom EXCEPT !.players[adminIndex].last_seen = t]),
                    sessions,
                    Ret("createRoom", TRUE, existingRoom.players[adminIndex].id, ""))
           ELSE Out(rooms, sessions,
                    Ret("createRoom", FALSE, NoId, "Room code already exists with different admin"))
    ELSE Out(MapSet(rooms, upperRoomCode,
                    NewRoom(upperRoomCode, <<NewPlayer(id, trim(playerName), TRUE, t)>>, t)),
             sessions, Ret("createRoom", TRUE, id, ""))

joinRoomSupabase(rooms, sessions, roomCode, playerName, id, t) ==
  LET upperRoomCode == toUpperCase(roomCode)
      trimmedName == trim(playerName)
  IN
  IF upperRoomCode \notin DOMAIN rooms
    THEN Out(rooms, sessions, Ret("joinRoom", FALSE, NoId, "not found"))
  ELSE
  LET room == rooms[upperRoomCode]
      SameName(p) == toLowerCase(p.name) = toLowerCase(trimmedName)
      existingIndex == FindIndex(room.players, {i_ \in 1..Len(room.players) : SameName(room.players[i_])})
  IN
  IF room.game_phase # "lobby"
    THEN Out(rooms, sessions, Ret("joinRoom", FALSE, NoId, "already in progress"))
  ELSE IF existingIndex # 0 /\ ~(t - room.players[existingIndex].last_seen > PLAYER_TIMEOUT)
    THEN Out(MapSet(rooms, upperRoomCode,
                    [room EXCEPT !.players[existingIndex].last_seen = t, !.last_activity = t]),
             sessions, Ret("joinRoom", TRUE, room.players[existingIndex].id, ""))
  ELSE
  LET players1 == IF existingIndex # 0 THEN RemoveAt(room.players, existingIndex) ELSE room.players
      room1 == [room EXCEPT !.players = players1]
  IN
  IF Len(players1) >= room.settings.totalPlayers
    THEN Out(MapSet(rooms, upperRoomCode, room1), sessions, Ret("joinRoom", FALSE, NoId, "full"))
    ELSE Out(MapSet(rooms, upperRoomCode,
                    [room1 EXCEPT !.players = Append(players1, NewPlayer(id, trimmedName, FALSE, t)),
                                  !.last_activity = t]),
             sessions, Ret("joinRoom", TRUE, id, ""))

\* joinRoomSupabase after its first select: the tests on the room that select
\* returned, then the delete, the update or the insert on the tables as they
\* are by then
joinRoomSupabaseInsert(room, rooms, sessions, playerName, id, t) ==
  LET upperRoomCode == room.id
      trimmedName == trim(playerName)
      SameName(p) == toLowerCase(p.name) = toLowerCase(trimmedName)
      existingIndex == FindIndex(room.players, {i_ \in 1..Len(room.players) : SameName(room.players[i_])})
      stored == IF upperRoomCode \in DOMAIN rooms THEN rooms[upperRoomCode].players ELSE << >>
  IN
  IF room.game_phase # "lobby"
    THEN Out(rooms, sessions, Ret("joinRoom", FALSE, NoId, "already in progress"))
  ELSE IF existingIndex # 0 /\ ~(t - room.players[existingIndex].last_seen > PLAYER_TIMEOUT)
    THEN LET existingPlayer == room.players[existingIndex]
             seen == [i \in 1..Len(stored) |->
                        IF stored[i].id = existingPlayer.id
                          THEN [stored[i] EXCEPT !.last_seen = t] ELSE stored[i]]
         IN Out(IF upperRoomCode \in DOMAIN rooms
                  THEN MapSet(rooms, upperRoomCode,
                              [rooms[upperRoomCode] EXCEPT !.players = seen, !.last_activity = t])
                  ELSE rooms,
                sessions, Ret("joinRoom", TRUE, existingPlayer.id, ""))
  ELSE
  LET NotTheInactive(p) == p.id # room.players[existingIndex].id
      rooms1 == IF existingIndex # 0 /\ upperRoomCode \in DOMAIN rooms
                  THEN MapSet(rooms, upperRoomCode,
                              [rooms[upperRoomCode] EXCEPT !.players = SelectSeq(stored, NotTheInactive)])
                  ELSE rooms
      \* room.players = updatedRoom.players after the removal
      players1 == IF existingIndex # 0 /\ upperRoomCode \in DOMAIN rooms1
                    THEN rooms1[upperRoomCode].players ELSE room.players
  IN
  IF Len(players1) >= room.settings.totalPlayers
    THEN Out(rooms1, sessions, Ret("joinRoom", FALSE, NoId, "full"))
  ELSE IF upperRoomCode \notin DOMAIN rooms1
    THEN Out(rooms1, sessions, Ret("joinRoom", FALSE, NoId, "Failed to join room"))
    ELSE Out(MapSet(rooms1, upperRoomCode,
                    [rooms1[upperRoomCode] EXCEPT
                       !.players = Append(rooms1[upperRoomCode].players,
                                          NewPlayer(id, trimmedName, FALSE, t)),
                       !.last_activity = t]),
             sessions, Ret("joinRoom", TRUE, id, ""))

getRoomSupabase(rooms, roomCode) ==
  IF toUpperCase(roomCode) \in DOMAIN rooms THEN {rooms[toUpperCase(roomCode)]} ELSE {}

\* the players of the updates are dropped: they live in their own table
updateRoomSupabase(rooms, sessions, roomCode, updates, t) ==
  IF toUpperCase(roomCode) \notin DOMAIN rooms
    THEN Out(rooms, sessions, Ret("updateRoom", FALSE, NoId, "null"))
    ELSE LET roomUpdates == [f \in (DOMAIN updates) \ {"players"} |-> updates[f]] IN
         Out(MapSet(rooms, toUpperCase(roomCode),
                    Assign(Assign(rooms[toUpperCase(roomCode)], roomUpdates), [last_activity |-> t])),
             sessions, Ret("updateRoom", TRUE, NoId, ""))

updatePlayerSupabase(rooms, sessions, roomCode, playerId, updates, t) ==
  IF toUpperCase(roomCode) \notin DOMAIN rooms
    THEN Out(rooms, sessions, Ret("updatePlayer", FALSE, NoId, "null"))
  ELSE
  LET room == rooms[toUpperCase(roomCode)]
      IsIt(p) == p.id = playerId
      playerIndex == FindIndex(room.players, {i_ \in 1..Len(room.players) : IsIt(room.players[i_])})
  IN
  IF playerIndex = 0
    THEN Out(rooms, sessions, Ret("updatePlayer", FALSE, NoId, "null"))
    ELSE Out(MapSet(rooms, toUpperCase(roomCode),
                    [room EXCEPT !.players[playerIndex] =
                                    Assign(Assign(room.players[playerIndex], updates), [last_seen |-> t]),
                                 !.last_activity = t]),
             sessions, Ret("updatePlayer", TRUE, playerId, ""))

removePlayerSupabase(rooms, sessions, roomCode, playerId, first, t) ==
  IF toUpperCase(roomCode) \notin DOMAIN rooms
    THEN Out(rooms, sessions, Ret("removePlayer", FALSE, NoId, "null"))
  ELSE
  LET room == rooms[toUpperCase(roomCode)]
      NotIt(p) == p.id # playerId
      remainingPlayers == SelectSeq(room.players, NotIt)
  IN
  IF Len(remainingPlayers) = 0
    THEN Out(MapDelete(rooms, toUpperCase(roomCode)), sessions,
             Ret("removePlayer", FALSE, NoId, "null"))
    ELSE Out(MapSet(rooms, toUpperCase(roomCode),
                    [room EXCEPT !.players = IF ~HasAdmin(remainingPlayers)
                                                THEN PromoteRow(remainingPlayers, first)
                                                ELSE remainingPlayers,
                                 !.last_activity = t]),
             sessions, Ret("removePlayer", TRUE, NoId, ""))

\* an update that matches no row is no error: the heartbeat reports success
heartbeatSupabase(rooms, sessions, playerId, t) ==
  LET roomId == "ABC"
      IsIt(p) == p.id = playerId
      idx == IF roomId \in DOMAIN rooms THEN FindIndex(rooms[roomId].players, {i_ \in 1..Len(rooms[roomId].players) : IsIt(rooms[roomId].players[i_])}) ELSE 0
  IN Out(IF idx # 0
           THEN MapSet(rooms, roomId, [rooms[roomId] EXCEPT !.players[idx].last_seen = t])
           ELSE rooms,
         sessions, Ret("heartbeat", TRUE, playerId, ""))

\* ------------------------------------------------------ GameStore dispatch
GameStore_createRoom(b, rooms, sessions, roomCode, playerName, id, t) ==
  IF b = "supabase" THEN createRoomSupabase(rooms, sessions, roomCode, playerName, id, t)
                    ELSE createRoomMemory(rooms, sessions, roomCode, playerName, id, t)

GameStore_joinRoom(b, rooms, sessions, roomCode, playerName, id, t) ==
  IF b = "supabase" THEN joinRoomSupabase(rooms, sessions, roomCode, playerName, id, t)
                    ELSE joinRoomMemory(rooms, sessions, roomCode, playerName, id, t)

GameStore_getRoom(b, rooms, roomCode) ==
  IF b = "supabase" THEN getRoomSupabase(rooms, roomCode) ELSE getRoomMemory(rooms, roomCode)

GameStore_updateRoom(b, rooms, sessions, roomCode, updates, t) ==
  IF b = "supabase" THEN updateRoomSupabase(rooms, sessions, roomCode, updates, t)
                    ELSE updateRoomMemory(rooms, sessions, roomCode, updates, t)

GameStore_updatePlayer(b, rooms, sessions, roomCode, playerId, updates, t) ==
  IF b = "supabase" THEN updatePlayerSupabase(rooms, sessions, roomCode, playerId, updates, t)
                    ELSE updatePlayerMemory(rooms, sessions, roomCode, playerId, updates, t)

GameStore_removePlayer(b, rooms, sessions, roomCode, playerId, first, t) ==
  IF b = "supabase" THEN removePlayerSupabase(rooms, sessions, roomCode, playerId, first, t)
                    ELSE removePlayerMemory(rooms, sessions, roomCode, playerId, t)

GameStore_heartbeat(b, rooms, sessions, playerId, t) ==
  IF b = "supabase" THEN heartbeatSupabase(rooms, sessions, playerId, t)
                    ELSE heartbeatMemory(rooms, sessions, playerId, t)

\* startCleanupIfNeeded(): the interval is installed on the in-memory backend
startCleanupIfNeeded(b, started) == IF b = "memory" THEN TRUE ELSE started

\* ------------------------------------------------------------ store actions
\* a call that mints a player id needs one that generatePlayerId can still give
IdAvailable(out) == (out.ret.ok /\ out.ret.playerId = nextId) => nextId <= MaxIds

Minted(out) == out.ret.ok /\ out.ret.playerId = nextId

\* GameStore.createRoom(roomCode, playerName)
CreateRoom(roomCode, playerName) ==
  LET out == GameStore_createRoom(backend, gameRooms, playerSessions, roomCode, playerName, nextId, now) IN
  /\ IdAvailable(out)
  /\ gameRooms' = out.rooms
  /\ playerSessions' = out.sessions
  /\ ret' = [out.ret EXCEPT !.op = "createRoom"]
  /\ nextId' = IF Minted(out) THEN nextId + 1 ELSE nextId
  /\ cleanupInterval' = startCleanupIfNeeded(backend, cleanupInterval)
  /\ swept' = IF cleanupInterval' # cleanupInterval THEN TRUE ELSE swept
  /\ UNCHANGED <<backend, now>>
  /\ UNCHANGED hookVars

\* GameStore.joinRoom(roomCode, playerName)
JoinRoom(roomCode, playerName) ==
  LET out == GameStore_joinRoom(backend, gameRooms, playerSessions, roomCode, playerName, nextId, now) IN
  /\ IdAvailable(out)
  /\ gameRooms' = out.rooms
  /\ playerSessions' = out.sessions
  /\ ret' = out.ret
  /\ nextId' = IF Minted(out) /\ out.ret.op = "joinRoom" THEN nextId + 1 ELSE nextId
  /\ cleanupInterval' = startCleanupIfNeeded(backend, cleanupInterval)
  /\ swept' = IF cleanupInterval' # cleanupInterval THEN TRUE ELSE swept
  /\ UNCHANGED <<backend, now>>
  /\ UNCHANGED hookVars

\* GameStore.removePlayer(roomCode, playerId)
RemovePlayer(roomCode, playerId) ==
  /\ \E first \in FirstRows(backend, gameRooms, roomCode) :
       LET out == GameStore_removePlayer(backend, gameRooms, playerSessions, roomCode,
                                         playerId, first, now)
       IN /\ gameRooms' = out.rooms
          /\ playerSessions' = out.sessions
          /\ ret' = out.ret
  /\ UNCHANGED <<backend, cleanupInterval, swept, now, nextId>>
  /\ UNCHANGED hookVars

\* GameStore.heartbeat(playerId)
Heartbeat(playerId) ==
  LET out == GameStore_heartbeat(backend, gameRooms, playerSessions, playerId, now) IN
  /\ gameRooms' = out.rooms
  /\ playerSessions' = out.sessions
  /\ ret' = out.ret
  /\ UNCHANGED <<backend, cleanupInterval, swept, now, nextId>>
  /\ UNCHANGED hookVars

\* one sweep interval passes; an installed sweep has run in it
Tick ==
  /\ now < MaxTime
  /\ cleanupInterval => swept
  /\ now' = now + 1
  /\ swept' = FALSE
  /\ ret' = Ret("tick", TRUE, NoId, "")
  /\ UNCHANGED <<backend, gameRooms, playerSessions, cleanupInterval, nextId>>
  /\ UNCHANGED hookVars

\* the setInterval callback of startCleanupIfNeeded
Sweep ==
  /\ cleanupInterval
  /\ ~swept
  /\ LET out == cleanupSweep(gameRooms, playerSessions, now) IN
       /\ gameRooms' = out.rooms
       /\ playerSessions' = out.sessions
       /\ ret' = out.ret
  /\ swept' = TRUE
  /\ UNCHANGED <<backend, cleanupInterval, now, nextId>>
  /\ UNCHANGED hookVars

\* ----------------------------------------------------- the hook: helpers
\* generateWords(difficulty): the pairs one of which is drawn at random
generateWords(difficulty) ==
  CASE difficulty = "easy" ->
         {[majorityWord |-> "Dog", imposterWord |-> "Wolf"],
          [majorityWord |-> "Cat", imposterWord |-> "Tiger"]}
    [] difficulty = "hard" ->
         {[majorityWord |-> "Sonnet", imposterWord |-> "Haiku"],
          [majorityWord |-> "Stalactite", imposterWord |-> "Stalagmite"]}
    [] OTHER ->
         {[majorityWord |-> "Violin", imposterWord |-> "Viola"],
          [majorityWord |-> "Crocodile", imposterWord |-> "Alligator"]}

\* Math.max
MaxOf(a, b) == IF a >= b THEN a ELSE b

\* Math.min
MinOf(a, b) == IF a <= b THEN a ELSE b

\* Math.min(room.settings.imposterCount, Math.floor(playerCount / 2))
ImposterCountFor(settings, playerCount) == MinOf(settings.imposterCount, playerCount \div 2)

\* indices.slice(0, imposterCount) after the shuffle: any imposterCount of the
\* indices (1-based here)
ImposterIndexSets(playerCount, imposterCount) ==
  {S \in SUBSET (1..playerCount) : Cardinality(S) = imposterCount}

\* a run of awaited GameStore.updatePlayer calls, ups[i] = [id, updates]
RECURSIVE updatePlayers(_, _, _, _, _, _)
updatePlayers(b, rooms, sessions, roomCode, ups, t) ==
  IF ups = << >> THEN Out(rooms, sessions, Ret("updatePlayer", TRUE, NoId, ""))
  ELSE LET o == GameStore_updatePlayer(b, rooms, sessions, roomCode, ups[1].id, ups[1].updates, t)
       IN updatePlayers(b, o.rooms, o.sessions, roomCode, Tail(ups), t)

ActivePlayers(players) == LET Active(p) == ~p.is_eliminated IN SelectSeq(players, Active)

\* Array.from(new Set(players.map(p => p.word).filter(Boolean))): the
\* non-empty words in order of first occurrence
RECURSIVE DistinctWords(_)
DistinctWords(players) ==
  IF players = << >> THEN << >>
  ELSE LET n == Len(players)
           front == DistinctWords(SubSeq(players, 1, n - 1))
           w == players[n].word
       IN IF w = "" \/ w \in Range(front) THEN front ELSE Append(front, w)

CountWord(players, w) == Cardinality({i \in 1..Len(players) : players[i].word = w})

\* the majority and the imposter word as the reveal timer works them out
ActualWords(players) ==
  LET distinctWords == DistinctWords(players) IN
  IF Len(distinctWords) = 1 THEN [majority |-> distinctWords[1], imposter |-> ""]
  ELSE IF Len(distinctWords) = 2 THEN
    LET c1 == CountWord(players, distinctWords[1])
        c2 == CountWord(players, distinctWords[2])
    IN [majority |-> IF c1 >= c2 THEN distinctWords[1] ELSE distinctWords[2],
        imposter |-> IF c1 < c2 THEN distinctWords[1] ELSE distinctWords[2]]
  ELSE [majority |-> "", imposter |-> ""]

\* the winner the reveal timer works out, Null for none
EvaluateWinner(players) ==
  LET finalActive == ActivePlayers(players)
      w == ActualWords(players)
      activeMaj == CountWord(finalActive, w.majority)
      activeImp == IF w.imposter = "" THEN 0 ELSE CountWord(finalActive, w.imposter)
  IN IF w.imposter = "" \/ activeImp = 0 THEN "majority"
     ELSE IF activeMaj = 0 THEN "imposters"
     ELSE IF activeImp > 0 /\ activeImp >= activeMaj THEN "imposters"
     ELSE Null

\* currentVoteCounts[c.id] || 0
VotesOf(voteCounts, id) == IF id \in DOMAIN voteCounts THEN voteCounts[id] ELSE 0

\* the candidates.forEach loop: [maxVotes, playersWithMax] after the first k
RECURSIVE TallyLoop(_, _, _)
TallyLoop(candidates, voteCounts, k) ==
  IF k = 0 THEN [maxVotes |-> -1, playersWithMax |-> << >>]
  ELSE LET acc == TallyLoop(candidates, voteCounts, k - 1)
           c == candidates[k]
           votes == VotesOf(voteCounts, c.id)
       IN IF votes > acc.maxVotes THEN [maxVotes |-> votes, playersWithMax |-> <<c>>]
          ELSE IF votes = acc.maxVotes
            THEN [maxVotes |-> acc.maxVotes, playersWithMax |-> Append(acc.playersWithMax, c)]
            ELSE acc

\* a tally without the test for a tie: the first of the players with the
\* maximum goes out
FirstOfTheLeaders(players, voteCounts) ==
  LET candidates == ActivePlayers(players)
      tally == TallyLoop(candidates, voteCounts, Len(candidates))
  IN IF Len(candidates) > 0 /\ tally.maxVotes > 0
       THEN tally.playersWithMax[1].id ELSE NoId

\* the id of the player the reveal timer eliminates, NoId for none
PlayerToEliminate(players, voteCounts) ==
  LET candidates == ActivePlayers(players)
      tally == TallyLoop(candidates, voteCounts, Len(candidates))
  IN IF Len(candidates) > 0 /\ tally.maxVotes > 0 /\ Len(tally.playersWithMax) = 1
       THEN tally.playersWithMax[1].id ELSE NoId

TheRoom(found) == CHOOSE r \in found : TRUE

FindPlayer(players, id) == {players[i] : i \in {j \in 1..Len(players) : players[j].id = id}}

\* the connection state of a hook that has just mounted: useState / useRef
\* initial values, the connection effect still to run
ConnNew ==
  [isConnected |-> FALSE, isConnecting |-> TRUE, error |-> "",
   heartbeatFailures |-> 0, heartbeatInterval |-> FALSE, pollingInterval |-> FALSE,
   connectionAttempted |-> FALSE, effectDue |-> TRUE]

\* ... and after connectToRoom has succeeded: the heartbeat interval runs, and
\* without Supabase the polling interval
ConnUp(b) ==
  [isConnected |-> TRUE, isConnecting |-> FALSE, error |-> "",
   heartbeatFailures |-> 0, heartbeatInterval |-> TRUE, pollingInterval |-> b # "supabase",
   connectionAttempted |-> TRUE, effectDue |-> FALSE]

\* ----------------------------------------------------- the hook: actions
Local(c) == TheRoom(cRoom[c])

StoreUnchanged == UNCHANGED <<gameRooms, playerSessions>>

\* page.createRoom (the code is free, GameStore.createRoom succeeds), then
\* the hook mounts with isAdmin = true and connectToRoom finds its admin
CreateAndConnect(c) ==
  /\ cPlayerId[c] = NoId
  /\ GameStore_getRoom(backend, gameRooms, HookRoomCode) = {}
  /\ LET out == GameStore_createRoom(backend, gameRooms, playerSessions, HookRoomCode,
                                     trim(ClientName[c]), nextId, now)
         existingRoom == GameStore_getRoom(backend, out.rooms, HookRoomCode)
         IsAdminOfName(p) == p.is_admin /\ toLowerCase(p.name) = toLowerCase(ClientName[c])
     IN /\ IdAvailable(out)
        /\ out.ret.ok
        /\ existingRoom # {}
        /\ FindIndex(TheRoom(existingRoom).players, {i_ \in 1..Len(TheRoom(existingRoom).players) : IsAdminOfName(TheRoom(existingRoom).players[i_])}) # 0
        /\ gameRooms' = out.rooms
        /\ playerSessions' = out.sessions
        /\ nextId' = IF Minted(out) THEN nextId + 1 ELSE nextId
        /\ cRoom' = [cRoom EXCEPT ![c] = existingRoom]
        /\ cPlayerId' = [cPlayerId EXCEPT ![c] =
             TheRoom(existingRoom).players[FindIndex(TheRoom(existingRoom).players, {i_ \in 1..Len(TheRoom(existingRoom).players) : IsAdminOfName(TheRoom(existingRoom).players[i_])})].id]
        /\ cIsAdmin' = [cIsAdmin EXCEPT ![c] = TRUE]
  /\ cleanupInterval' = startCleanupIfNeeded(backend, cleanupInterval)
  /\ swept' = IF cleanupInterval' # cleanupInterval THEN TRUE ELSE swept
  /\ UNCHANGED <<backend, now, ret, voteCalls, startTimer, revealTimer>>
  /\ UNCHANGED joinCalls
  /\ conn' = [conn EXCEPT ![c] = ConnUp(backend)]

\* page.joinRoom (the room exists), then the hook mounts with isAdmin = false
\* and connectToRoom calls GameStore.joinRoom; a failed join goes back home
JoinAndConnect(c) ==
  /\ cPlayerId[c] = NoId
  /\ GameStore_getRoom(backend, gameRooms, HookRoomCode) # {}
  /\ LET out == GameStore_joinRoom(backend, gameRooms, playerSessions, HookRoomCode,
                                   ClientName[c], nextId, now)
     IN /\ IdAvailable(out)
        /\ gameRooms' = out.rooms
        /\ playerSessions' = out.sessions
        /\ nextId' = IF Minted(out) THEN nextId + 1 ELSE nextId
        /\ cRoom' = [cRoom EXCEPT ![c] =
             IF out.ret.ok THEN GameStore_getRoom(backend, out.rooms, HookRoomCode) ELSE {}]
        /\ cPlayerId' = [cPlayerId EXCEPT ![c] = IF out.ret.ok THEN out.ret.playerId ELSE NoId]
        /\ cIsAdmin' = [cIsAdmin EXCEPT ![c] = FALSE]
  /\ cleanupInterval' = startCleanupIfNeeded(backend, cleanupInterval)
  /\ swept' = IF cleanupInterval' # cleanupInterval THEN TRUE ELSE swept
  /\ UNCHANGED <<backend, now, ret, voteCalls, startTimer, revealTimer>>
  /\ UNCHANGED joinCalls
  /\ conn' = [conn EXCEPT ![c] = IF cPlayerId'[c] # NoId THEN ConnUp(backend) ELSE ConnNew]

\* a change event or a poll: the hook fetches the room and publishes it
Refresh(c) ==
  /\ cPlayerId[c] # NoId
  /\ LET updatedRoom == GameStore_getRoom(backend, gameRooms, HookRoomCode) IN
       /\ updatedRoom # {}
       /\ cRoom[c] # updatedRoom
       /\ cRoom' = [cRoom EXCEPT ![c] = updatedRoom]
  /\ UNCHANGED <<storeVars, cIsAdmin, cPlayerId, voteCalls, startTimer, revealTimer>>
  /\ UNCHANGED joinCalls
  /\ UNCHANGED conn

\* the imposterCount values the admin picks in the lobby
ImposterCountInputs == {1, 2}

updateSettings(c, imposterCount) ==
  /\ cPlayerId[c] # NoId
  /\ cRoom[c] # {}
  /\ LET o == GameStore_updateRoom(backend, gameRooms, playerSessions, HookRoomCode,
                 [settings |-> [Local(c).settings EXCEPT !.imposterCount = imposterCount]], now)
         updatedRoom == GameStore_getRoom(backend, o.rooms, HookRoomCode)
     IN /\ updatedRoom # {}
        /\ gameRooms' = o.rooms
        /\ playerSessions' = o.sessions
        /\ cRoom' = [cRoom EXCEPT ![c] = updatedRoom]
  /\ UNCHANGED <<backend, cleanupInterval, swept, now, nextId, ret>>
  /\ UNCHANGED <<cIsAdmin, cPlayerId, voteCalls, startTimer, revealTimer>>
  /\ UNCHANGED joinCalls
  /\ UNCHANGED conn

\* the updates startGame writes to the players of its own room state
StartUpdates(players, pair, imposterIndices) ==
  [i \in 1..Len(players) |->
     [id |-> players[i].id,
      updates |-> [word |-> IF i \in imposterIndices THEN pair.imposterWord ELSE pair.majorityWord,
                   clue |-> "", votes |-> 0, is_eliminated |-> FALSE,
                   has_submitted_clue |-> FALSE, has_voted |-> FALSE]]]

startGame(c) ==
  /\ cPlayerId[c] # NoId
  /\ cRoom[c] # {}
  /\ Len(Local(c).players) >= 2
  /\ \E pair \in generateWords(Local(c).settings.difficulty) :
            \E imposterIndices \in
                 ImposterIndexSets(Len(Local(c).players),
                                   ImposterCountFor(Local(c).settings, Len(Local(c).players))) :
              LET o1 == updatePlayers(backend, gameRooms, playerSessions, HookRoomCode,
                                      StartUpdates(Local(c).players, pair, imposterIndices), now)
                  o2 == GameStore_updateRoom(backend, o1.rooms, o1.sessions, HookRoomCode,
                          [game_phase |-> "starting", time_left |-> 5, round |-> 1,
                           eliminationResult |-> Null, gameWinner |-> Null,
                           lastEliminatedPlayerId |-> NoId, voteCounts |-> NoVotes], now)
              IN /\ cIsAdmin[c] => startTimer[c] < MaxTimers
                 /\ gameRooms' = o2.rooms
                 /\ playerSessions' = o2.sessions
                 /\ startTimer' = IF cIsAdmin[c]
                                    THEN [startTimer EXCEPT ![c] = @ + 1] ELSE startTimer
  /\ UNCHANGED <<backend, cleanupInterval, swept, now, nextId, ret>>
  /\ UNCHANGED <<cIsAdmin, cPlayerId, cRoom, voteCalls, revealTimer>>
  /\ UNCHANGED joinCalls
  /\ UNCHANGED conn

\* a start timer that does not look at the phase it wakes in
StartTimerFireAnyPhase(c) ==
  /\ startTimer[c] > 0
  /\ startTimer' = [startTimer EXCEPT ![c] = @ - 1]
  /\ LET currentRoom == GameStore_getRoom(backend, gameRooms, HookRoomCode) IN
       IF currentRoom # {}
         THEN LET o == GameStore_updateRoom(backend, gameRooms, playerSessions, HookRoomCode,
                         [game_phase |-> "simultaneous_clues", time_left |-> 20], now)
              IN gameRooms' = o.rooms /\ playerSessions' = o.sessions
         ELSE StoreUnchanged
  /\ UNCHANGED <<backend, cleanupInterval, swept, now, nextId, ret>>
  /\ UNCHANGED <<cIsAdmin, cPlayerId, cRoom, voteCalls, revealTimer>>
  /\ UNCHANGED joinCalls
  /\ UNCHANGED conn

\* the setTimeout callback of startGame, 5 s after it
StartTimerFire(c) ==
  /\ startTimer[c] > 0
  /\ startTimer' = [startTimer EXCEPT ![c] = @ - 1]
  /\ LET currentRoom == GameStore_getRoom(backend, gameRooms, HookRoomCode) IN
       IF currentRoom # {} /\ TheRoom(currentRoom).game_phase = "starting"
         THEN LET o == GameStore_updateRoom(backend, gameRooms, playerSessions, HookRoomCode,
                         [game_phase |-> "simultaneous_clues", time_left |-> 20], now)
              IN gameRooms' = o.rooms /\ playerSessions' = o.sessions
         ELSE StoreUnchanged
  /\ UNCHANGED <<backend, cleanupInterval, swept, now, nextId, ret>>
  /\ UNCHANGED <<cIsAdmin, cPlayerId, cRoom, voteCalls, revealTimer>>
  /\ UNCHANGED joinCalls
  /\ UNCHANGED conn

\* a test that is content with one clue from the players still in
SomeClueSubmitted(players) ==
  \E i \in 1..Len(players) : ~players[i].is_eliminated /\ players[i].has_submitted_clue

AllCluesSubmitted(players) ==
  \A i \in 1..Len(players) : ~players[i].is_eliminated => players[i].has_submitted_clue

submitClue(c, clue) ==
  /\ cPlayerId[c] # NoId
  /\ cRoom[c] # {}
  /\ Local(c).game_phase = "simultaneous_clues"
  /\   LET o1 == GameStore_updatePlayer(backend, gameRooms, playerSessions, HookRoomCode,
                        cPlayerId[c], [clue |-> clue, has_submitted_clue |-> TRUE], now)
                updatedRoom == GameStore_getRoom(backend, o1.rooms, HookRoomCode)
            IN IF updatedRoom = {}
                 THEN /\ gameRooms' = o1.rooms
                      /\ playerSessions' = o1.sessions
                      /\ UNCHANGED cRoom
                 ELSE LET activePlayers == ActivePlayers(TheRoom(updatedRoom).players)
                          o2 == IF AllCluesSubmitted(TheRoom(updatedRoom).players)
                                   /\ Len(activePlayers) > 0
                                  THEN GameStore_updateRoom(backend, o1.rooms, o1.sessions, HookRoomCode,
                                         [game_phase |-> "voting", time_left |-> 0], now)
                                  ELSE o1
                      IN /\ gameRooms' = o2.rooms
                         /\ playerSessions' = o2.sessions
                         /\ cRoom' = [cRoom EXCEPT ![c] = updatedRoom]
  /\ UNCHANGED <<backend, cleanupInterval, swept, now, nextId, ret>>
  /\ UNCHANGED <<cIsAdmin, cPlayerId, voteCalls, startTimer, revealTimer>>
  /\ UNCHANGED joinCalls
  /\ UNCHANGED conn

\* the submitVote calls past their checks and not yet run, over all clients
RECURSIVE SumLen(_, _)
SumLen(f, S) ==
  IF S = {} THEN 0
  ELSE LET c == CHOOSE x \in S : TRUE IN Len(f[c]) + SumLen(f, S \ {c})

InFlight == SumLen(voteCalls, Clients)

\* submitVote up to its first await: the checks against the hook's room state
submitVoteCall(c, votedPlayerId) ==
  /\ cPlayerId[c] # NoId
  /\ InFlight < MaxInFlight
  /\ cRoom[c] # {}
  /\ Local(c).game_phase = "voting"
  /\ ~(\E voter \in FindPlayer(Local(c).players, cPlayerId[c]) : voter.has_voted)
  /\ FindPlayer(Local(c).players, votedPlayerId) # {}
  /\ LET votedPlayer == CHOOSE p \in FindPlayer(Local(c).players, votedPlayerId) : TRUE IN
       voteCalls' = [voteCalls EXCEPT ![c] =
          Append(@, [voter |-> cPlayerId[c], target |-> votedPlayerId,
                     votes |-> votedPlayer.votes + 1])]
  /\ UNCHANGED storeVars
  /\ UNCHANGED <<cIsAdmin, cPlayerId, cRoom, startTimer, revealTimer>>
  /\ UNCHANGED joinCalls
  /\ UNCHANGED conn

AllVoted(players) ==
  \A i \in 1..Len(players) : ~players[i].is_eliminated => players[i].has_voted

\* voteCountsForDisplay
VoteCountsForDisplay(players) ==
  [id \in {players[i].id : i \in 1..Len(players)} |->
     (CHOOSE p \in Range(players) : p.id = id).votes]

\* submitVote from its first await on: the writes, the re-read, the move to
\* reveal_votes and the arming of the reveal timer
submitVoteRun(c) ==
  /\ voteCalls[c] # << >>
  /\ voteCalls' = [voteCalls EXCEPT ![c] = Tail(@)]
  /\ LET call == Head(voteCalls[c])
         o1 == GameStore_updatePlayer(backend, gameRooms, playerSessions, HookRoomCode,
                 call.target, [votes |-> call.votes], now)
         o2 == GameStore_updatePlayer(backend, o1.rooms, o1.sessions, HookRoomCode,
                 call.voter, [has_voted |-> TRUE], now)
         currentRoom == GameStore_getRoom(backend, o2.rooms, HookRoomCode)
     IN IF currentRoom = {}
          THEN /\ gameRooms' = o2.rooms
               /\ playerSessions' = o2.sessions
               /\ UNCHANGED <<cRoom, revealTimer>>
          ELSE LET allVoted == AllVoted(TheRoom(currentRoom).players)
                   o3 == IF allVoted
                           THEN GameStore_updateRoom(backend, o2.rooms, o2.sessions, HookRoomCode,
                                  [game_phase |-> "reveal_votes",
                                   voteCounts |-> VoteCountsForDisplay(TheRoom(currentRoom).players),
                                   time_left |-> 7, eliminationResult |-> Null,
                                   lastEliminatedPlayerId |-> NoId, gameWinner |-> Null], now)
                           ELSE o2
               IN /\ (allVoted /\ cIsAdmin[c]) => revealTimer[c] < MaxTimers
                  /\ gameRooms' = o3.rooms
                  /\ playerSessions' = o3.sessions
                  /\ cRoom' = IF cPlayerId[c] # NoId
                                THEN [cRoom EXCEPT ![c] = currentRoom] ELSE cRoom
                  /\ revealTimer' = IF allVoted /\ cIsAdmin[c]
                                      THEN [revealTimer EXCEPT ![c] = @ + 1] ELSE revealTimer
  /\ UNCHANGED <<backend, cleanupInterval, swept, now, nextId, ret>>
  /\ UNCHANGED <<cIsAdmin, cPlayerId, startTimer>>
  /\ UNCHANGED joinCalls
  /\ UNCHANGED conn

\* vote resets that put the player back in as well
VoteResetsClearOut(players) ==
  [i \in 1..Len(players) |->
     [id |-> players[i].id,
      updates |-> [votes |-> 0, has_voted |-> FALSE, is_eliminated |-> FALSE]]]

\* the updates that clear votes and has_voted of the listed players
VoteResets(players) ==
  [i \in 1..Len(players) |-> [id |-> players[i].id, updates |-> [votes |-> 0, has_voted |-> FALSE]]]

\* updates that clear the clue and leave has_submitted_clue as it is
ClueOnlyResets(players) ==
  [i \in 1..Len(players) |-> [id |-> players[i].id, updates |-> [clue |-> ""]]]

\* the updates that clear clue and has_submitted_clue of the listed players
ClueResets(players) ==
  [i \in 1..Len(players) |->
     [id |-> players[i].id, updates |-> [clue |-> "", has_submitted_clue |-> FALSE]]]

\* the reveal timer's write of is_eliminated for the player its tally named
RevealEliminate(b, rooms, sessions, playerToEliminate, t) ==
  IF playerToEliminate # NoId
    THEN GameStore_updatePlayer(b, rooms, sessions, HookRoomCode, playerToEliminate,
                                [is_eliminated |-> TRUE], t)
    ELSE Out(rooms, sessions, Ret("updatePlayer", TRUE, NoId, ""))

\* the reveal timer from its vote resets on: roomAfterReveal is the room it
\* read on waking, playerToEliminate the player its tally named
RevealFinish(b, rooms, sessions, roomAfterReveal, playerToEliminate, t) ==
  LET currentVoteCounts == roomAfterReveal.voteCounts
      currentEliminationResult ==
        IF Len(ActivePlayers(roomAfterReveal.players)) = 0 THEN "No candidates for elimination."
        ELSE IF playerToEliminate # NoId THEN "Player has been eliminated."
        ELSE "No one was eliminated this round."
      o2 == updatePlayers(b, rooms, sessions, HookRoomCode,
                          VoteResets(roomAfterReveal.players), t)
      roomAfterElimination == o2.rooms[HookRoomCode]
      gameWinner == EvaluateWinner(roomAfterElimination.players)
  IN IF gameWinner # Null
       THEN GameStore_updateRoom(b, o2.rooms, o2.sessions, HookRoomCode,
              [eliminationResult |-> currentEliminationResult,
               lastEliminatedPlayerId |-> playerToEliminate,
               gameWinner |-> gameWinner, game_phase |-> "results", time_left |-> 0,
               voteCounts |-> currentVoteCounts], t)
       ELSE LET o3 == updatePlayers(b, o2.rooms, o2.sessions, HookRoomCode,
                                    ClueResets(ActivePlayers(roomAfterElimination.players)), t)
                roomForNextRound == o3.rooms[HookRoomCode]
            IN GameStore_updateRoom(b, o3.rooms, o3.sessions, HookRoomCode,
                 [game_phase |-> "simultaneous_clues", round |-> roomForNextRound.round + 1,
                  time_left |-> 20, eliminationResult |-> Null,
                  lastEliminatedPlayerId |-> NoId, voteCounts |-> NoVotes], t)

\* the body of the reveal timer once it has found the room in reveal_votes
RevealOutcome(b, rooms, sessions, t) ==
  LET roomAfterReveal == rooms[HookRoomCode]
      playerToEliminate == PlayerToEliminate(roomAfterReveal.players, roomAfterReveal.voteCounts)
      o1 == RevealEliminate(b, rooms, sessions, playerToEliminate, t)
  IN RevealFinish(b, o1.rooms, o1.sessions, roomAfterReveal, playerToEliminate, t)

\* two reveal timers of one client whose callbacks overlap: each await of a
\* callback lets the other one run. The second callback reads the room
\* before the first one's elimination write ("before") or after it
\* ("after"), and the callback named by last writes the room last
RevealTimersOverlap(c) ==
  /\ revealTimer[c] >= 2
  /\ revealTimer' = [revealTimer EXCEPT ![c] = @ - 2]
  /\ \E secondReads \in {"before", "after"}, last \in {"first", "second"} :
       \E first \in GameStore_getRoom(backend, gameRooms, HookRoomCode) :
         /\ first.game_phase = "reveal_votes"
         /\ \E firstOut \in {PlayerToEliminate(first.players, first.voteCounts)} :
            \E o1 \in {RevealEliminate(backend, gameRooms, playerSessions, firstOut, now)} :
            \E second \in (IF secondReads = "before" THEN {first}
                           ELSE GameStore_getRoom(backend, o1.rooms, HookRoomCode)) :
            \E secondOut \in {PlayerToEliminate(second.players, second.voteCounts)} :
            \E o2 \in {RevealEliminate(backend, o1.rooms, o1.sessions, secondOut, now)} :
            \E o3 \in {IF last = "second"
                         THEN RevealFinish(backend, o2.rooms, o2.sessions, first, firstOut, now)
                         ELSE RevealFinish(backend, o2.rooms, o2.sessions, second, secondOut, now)} :
            \E o4 \in {IF last = "second"
                         THEN RevealFinish(backend, o3.rooms, o3.sessions, second, secondOut, now)
                         ELSE RevealFinish(backend, o3.rooms, o3.sessions, first, firstOut, now)} :
              /\ o4.rooms[HookRoomCode].round <= MaxRound
              /\ gameRooms' = o4.rooms
              /\ playerSessions' = o4.sessions
  /\ UNCHANGED <<backend, cleanupInterval, swept, now, nextId, ret>>
  /\ UNCHANGED <<cIsAdmin, cPlayerId, cRoom, voteCalls, startTimer>>
  /\ UNCHANGED joinCalls
  /\ UNCHANGED conn

\* the setTimeout callback of submitVote, 7 s after the move to reveal_votes
RevealTimerFire(c) ==
  /\ revealTimer[c] > 0
  /\ revealTimer' = [revealTimer EXCEPT ![c] = @ - 1]
  /\ LET roomAfterReveal == GameStore_getRoom(backend, gameRooms, HookRoomCode) IN
       IF roomAfterReveal = {} \/ TheRoom(roomAfterReveal).game_phase # "reveal_votes"
         THEN StoreUnchanged
         ELSE LET o == RevealOutcome(backend, gameRooms, playerSessions, now) IN
              /\ o.rooms[HookRoomCode].round <= MaxRound
              /\ gameRooms' = o.rooms
              /\ playerSessions' = o.sessions
  /\ UNCHANGED <<backend, cleanupInterval, swept, now, nextId, ret>>
  /\ UNCHANGED <<cIsAdmin, cPlayerId, cRoom, voteCalls, startTimer>>
  /\ UNCHANGED joinCalls
  /\ UNCHANGED conn

\* updates of a restart that leave is_eliminated as it is
RestartUpdatesKeepOut(players) ==
  [i \in 1..Len(players) |->
     [id |-> players[i].id,
      updates |-> [word |-> "", clue |-> "", votes |-> 0,
                   has_voted |-> FALSE, has_submitted_clue |-> FALSE]]]

\* the updates restartGame writes to the players of its own room state
RestartUpdates(players) ==
  [i \in 1..Len(players) |->
     [id |-> players[i].id,
      updates |-> [word |-> "", clue |-> "", votes |-> 0, is_eliminated |-> FALSE,
                   has_voted |-> FALSE, has_submitted_clue |-> FALSE]]]

\* a restart whose room write leaves gameWinner as it is
restartGameKeepsWinner(c) ==
  /\ cPlayerId[c] # NoId
  /\ cRoom[c] # {}
  /\ conn[c].isConnected
  /\ cIsAdmin[c]
  /\ Local(c).game_phase = "results"
  /\ \E o1 \in {updatePlayers(backend, gameRooms, playerSessions, HookRoomCode,
                              RestartUpdates(Local(c).players), now)} :
       LET o2 == GameStore_updateRoom(backend, o1.rooms, o1.sessions, HookRoomCode,
                   [game_phase |-> "lobby", round |-> 1, time_left |-> 0,
                    eliminationResult |-> Null,
                    lastEliminatedPlayerId |-> NoId, voteCounts |-> NoVotes], now)
       IN /\ gameRooms' = o2.rooms
          /\ playerSessions' = o2.sessions
  /\ UNCHANGED <<backend, cleanupInterval, swept, now, nextId, ret>>
  /\ UNCHANGED hookVars

restartGameAllowed(c) ==
  /\ cPlayerId[c] # NoId
  /\ cRoom[c] # {}
  /\ conn[c].isConnected
  /\ cIsAdmin[c]
  /\ Local(c).game_phase = "results"

restartGame(c) ==
  /\ restartGameAllowed(c)
  /\   LET o1 == updatePlayers(backend, gameRooms, playerSessions, HookRoomCode,
                                    RestartUpdates(Local(c).players), now)
                o2 == GameStore_updateRoom(backend, o1.rooms, o1.sessions, HookRoomCode,
                        [game_phase |-> "lobby", round |-> 1, time_left |-> 0,
                         eliminationResult |-> Null, gameWinner |-> Null,
                         lastEliminatedPlayerId |-> NoId, voteCounts |-> NoVotes], now)
            IN /\ gameRooms' = o2.rooms
               /\ playerSessions' = o2.sessions
  /\ UNCHANGED <<backend, cleanupInterval, swept, now, nextId, ret>>
  /\ UNCHANGED hookVars

\* GameRoom.handleLeave: leaveRoom(), then the page unmounts the hook
leaveRoom(c) ==
  /\ cPlayerId[c] # NoId
  /\ \E first \in FirstRows(backend, gameRooms, HookRoomCode) :
       LET o == GameStore_removePlayer(backend, gameRooms, playerSessions, HookRoomCode,
                                       cPlayerId[c], first, now)
       IN /\ gameRooms' = o.rooms
          /\ playerSessions' = o.sessions
  /\ cPlayerId' = [cPlayerId EXCEPT ![c] = NoId]
  /\ cRoom' = [cRoom EXCEPT ![c] = {}]
  /\ cIsAdmin' = [cIsAdmin EXCEPT ![c] = FALSE]
  /\ UNCHANGED <<backend, cleanupInterval, swept, now, nextId, ret>>
  /\ UNCHANGED <<voteCalls, startTimer, revealTimer>>
  /\ UNCHANGED joinCalls
  /\ conn' = [conn EXCEPT ![c] = ConnNew]

PlayerIds == 1..(MaxIds + 1)

\* the Total Players select of the admin's lobby view: updateSettings merges
\* the choice into the room's settings
TotalPlayersInputs == {2, 3}

handleTotalPlayers(totalPlayers) ==
  /\ GameStore_getRoom(backend, gameRooms, HookRoomCode) # {}
  /\ LET room == TheRoom(GameStore_getRoom(backend, gameRooms, HookRoomCode))
         out == GameStore_updateRoom(backend, gameRooms, playerSessions, HookRoomCode,
                  [settings |-> [room.settings EXCEPT !.totalPlayers = totalPlayers]], now)
     IN /\ room.game_phase = "lobby"
        /\ gameRooms' = out.rooms
        /\ playerSessions' = out.sessions
        /\ ret' = out.ret
  /\ UNCHANGED <<backend, cleanupInterval, swept, now, nextId>>
  /\ UNCHANGED hookVars

\* GameStore.joinRoom on the persistent backend up to the answer of its first
\* select: the caller holds the room with its players
JoinRoomSelect(c, roomCode, playerName) ==
  /\ backend = "supabase"
  /\ joinCalls[c] = {}
  /\ LET found == getRoomSupabase(gameRooms, roomCode) IN
       IF found = {}
         THEN /\ ret' = Ret("joinRoom", FALSE, NoId, "not found")
              /\ UNCHANGED joinCalls
         ELSE /\ joinCalls' = [joinCalls EXCEPT ![c] =
                   {[room |-> TheRoom(found), playerName |-> playerName]}]
              /\ UNCHANGED ret
  /\ UNCHANGED <<backend, gameRooms, playerSessions, cleanupInterval, swept, now, nextId>>
  /\ UNCHANGED <<cIsAdmin, cPlayerId, cRoom, voteCalls, startTimer, revealTimer, conn>>

\* ... and from there to its return
JoinRoomInsert(c) ==
  /\ joinCalls[c] # {}
  /\ LET call == CHOOSE x \in joinCalls[c] : TRUE
         out == joinRoomSupabaseInsert(call.room, gameRooms, playerSessions,
                                       call.playerName, nextId, now)
     IN /\ IdAvailable(out)
        /\ gameRooms' = out.rooms
        /\ playerSessions' = out.sessions
        /\ ret' = out.ret
        /\ nextId' = IF Minted(out) THEN nextId + 1 ELSE nextId
  /\ joinCalls' = [joinCalls EXCEPT ![c] = {}]
  /\ UNCHANGED <<backend, cleanupInterval, swept, now>>
  /\ UNCHANGED <<cIsAdmin, cPlayerId, cRoom, voteCalls, startTimer, revealTimer, conn>>

\* the messages the hook puts in its error state
JoinFailed == "Failed to join room"
HeartbeatLost == "Connection lost (heartbeat). Please try reconnecting."

\* heartbeat failures in a row after which the connection is declared lost
HeartbeatLimit == 3

\* the connection effect of a hook mounted with isAdmin = false (page.joinRoom
\* has found the room): connectToRoom calls GameStore.joinRoom; a failure is
\* put in the error state and the page shows the error view
connectToRoom(c) ==
  /\ conn[c].effectDue
  /\ ~conn[c].connectionAttempted
  /\ cPlayerId[c] = NoId
  /\ GameStore_getRoom(backend, gameRooms, HookRoomCode) # {}
  /\ LET out == GameStore_joinRoom(backend, gameRooms, playerSessions, HookRoomCode,
                                   ClientName[c], nextId, now)
     IN /\ IdAvailable(out)
        /\ gameRooms' = out.rooms
        /\ playerSessions' = out.sessions
        /\ nextId' = IF Minted(out) THEN nextId + 1 ELSE nextId
        /\ cRoom' = [cRoom EXCEPT ![c] =
             IF out.ret.ok THEN GameStore_getRoom(backend, out.rooms, HookRoomCode) ELSE {}]
        /\ cPlayerId' = [cPlayerId EXCEPT ![c] = IF out.ret.ok THEN out.ret.playerId ELSE NoId]
        /\ cIsAdmin' = [cIsAdmin EXCEPT ![c] = FALSE]
        /\ conn' = [conn EXCEPT ![c] =
             IF out.ret.ok
               THEN ConnUp(backend)
               ELSE [ConnNew EXCEPT !.isConnecting = FALSE, !.error = JoinFailed,
                                    !.connectionAttempted = TRUE, !.effectDue = FALSE]]
  /\ cleanupInterval' = startCleanupIfNeeded(backend, cleanupInterval)
  /\ swept' = IF cleanupInterval' # cleanupInterval THEN TRUE ELSE swept
  /\ UNCHANGED <<backend, now, ret, voteCalls, startTimer, revealTimer, joinCalls>>

\* the same with a count of all failures, a success leaving the count alone
AfterHeartbeatCounting(k, success) ==
  IF success
    THEN k
  ELSE IF k.heartbeatFailures + 1 >= HeartbeatLimit
    THEN [k EXCEPT !.heartbeatFailures = k.heartbeatFailures + 1,
                   !.error = HeartbeatLost, !.isConnected = FALSE,
                   !.heartbeatInterval = FALSE, !.pollingInterval = FALSE]
    ELSE [k EXCEPT !.heartbeatFailures = k.heartbeatFailures + 1]

\* the hook's state after a heartbeat of the given outcome
AfterHeartbeat(k, success) ==
  IF success
    THEN [k EXCEPT !.heartbeatFailures = 0]
  ELSE IF k.heartbeatFailures + 1 >= HeartbeatLimit
    THEN [k EXCEPT !.heartbeatFailures = k.heartbeatFailures + 1,
                   !.error = HeartbeatLost, !.isConnected = FALSE,
                   !.heartbeatInterval = FALSE, !.pollingInterval = FALSE]
    ELSE [k EXCEPT !.heartbeatFailures = k.heartbeatFailures + 1]

\* one run of the heartbeat interval's callback; lost: the request fails on
\* its way and GameStore.heartbeat returns false
HeartbeatFire(c, lost) ==
  /\ conn[c].heartbeatInterval
  /\ cPlayerId[c] # NoId
  /\ LET out == GameStore_heartbeat(backend, gameRooms, playerSessions, cPlayerId[c], now)
         success == ~lost /\ out.ret.ok
     IN /\ gameRooms' = IF lost THEN gameRooms ELSE out.rooms
        /\ playerSessions' = IF lost THEN playerSessions ELSE out.sessions
        /\ ret' = [out.ret EXCEPT !.ok = success]
        /\ conn' = [conn EXCEPT ![c] = AfterHeartbeat(conn[c], success)]
  /\ UNCHANGED <<backend, cleanupInterval, swept, now, nextId>>
  /\ UNCHANGED <<cIsAdmin, cPlayerId, cRoom, voteCalls, startTimer, revealTimer, joinCalls>>

\* the Retry button of the error view: retry() clears the ref and sets the
\* state; the connection effect depends on roomCode, playerName and isAdmin
\* only, so nothing schedules it
retry(c) ==
  /\ ~conn[c].isConnecting
  /\ ~conn[c].isConnected \/ conn[c].error # ""
  /\ conn[c].connectionAttempted
  /\ conn' = [conn EXCEPT ![c] =
       [conn[c] EXCEPT !.connectionAttempted = FALSE, !.isConnecting = TRUE,
                       !.error = "", !.isConnected = FALSE]]
  /\ UNCHANGED storeVars
  /\ UNCHANGED <<cIsAdmin, cPlayerId, cRoom, voteCalls, startTimer, revealTimer, joinCalls>>

\* the message of the subscription's CHANNEL_ERROR status
ChannelIssue == "Real-time connection issue. Switched to fallback mode (slower updates)."

\* the subscription reports CHANNEL_ERROR: the hook sets the error and calls
\* setupPolling
ChannelError(c) ==
  /\ backend = "supabase"
  /\ conn[c].isConnected
  /\ ~conn[c].pollingInterval
  /\ conn' = [conn EXCEPT ![c] = [conn[c] EXCEPT !.error = ChannelIssue, !.pollingInterval = TRUE]]
  /\ UNCHANGED storeVars
  /\ UNCHANGED <<cIsAdmin, cPlayerId, cRoom, voteCalls, startTimer, revealTimer, joinCalls>>

\* room and isConnected as the polling callback sees them: setupPolling is
\* called from the connection effect of the first render, whose room is null
\* and whose isConnected is false
PollingRoom == {}
PollingIsConnected == FALSE

\* the test of the polling callback before it publishes the fetched room
ShouldSetRoom(room, updatedRoom) ==
  IF room = {} THEN TRUE
  ELSE \/ TheRoom(room).players # TheRoom(updatedRoom).players
       \/ TheRoom(room).game_phase # TheRoom(updatedRoom).game_phase

\* a polling callback that compares with the room the hook shows now
PollOfShownRoom(c) ==
  /\ conn[c].pollingInterval
  /\ LET updatedRoom == GameStore_getRoom(backend, gameRooms, HookRoomCode) IN
       /\ updatedRoom # {}
       /\ ShouldSetRoom(cRoom[c], updatedRoom)
       /\ cRoom[c] # updatedRoom
       /\ cRoom' = [cRoom EXCEPT ![c] = updatedRoom]
       /\ ret' = Ret("poll", TRUE, cPlayerId[c], "")
       /\ UNCHANGED conn
  /\ UNCHANGED <<backend, gameRooms, playerSessions, cleanupInterval, swept, now, nextId>>
  /\ UNCHANGED <<cIsAdmin, cPlayerId, voteCalls, startTimer, revealTimer, joinCalls>>

\* one run of the polling interval's callback that changes the hook's state
Poll(c) ==
  /\ conn[c].pollingInterval
  /\ LET updatedRoom == GameStore_getRoom(backend, gameRooms, HookRoomCode) IN
       IF updatedRoom # {}
         THEN /\ ShouldSetRoom(PollingRoom, updatedRoom)
              /\ cRoom[c] # updatedRoom
              /\ cRoom' = [cRoom EXCEPT ![c] = updatedRoom]
              /\ ret' = Ret("poll", TRUE, cPlayerId[c], "")
              /\ UNCHANGED conn
         ELSE /\ PollingIsConnected
              /\ conn[c].isConnected
              /\ conn' = [conn EXCEPT ![c] =
                   [conn[c] EXCEPT !.error = "Room no longer exists", !.isConnected = FALSE]]
              /\ ret' = Ret("poll", FALSE, cPlayerId[c], "")
              /\ UNCHANGED cRoom
  /\ UNCHANGED <<backend, gameRooms, playerSessions, cleanupInterval, swept, now, nextId>>
  /\ UNCHANGED <<cIsAdmin, cPlayerId, voteCalls, startTimer, revealTimer, joinCalls>>

\* ------------------------------------------------- the page: GameRoom callers
\* the Start Game button: shown in the lobby view of the admin's page,
\* disabled below two players
handleStartGame(c) ==
  /\ cIsAdmin[c]
  /\ cRoom[c] # {}
  /\ Local(c).game_phase = "lobby"
  /\ Len(Local(c).players) >= 2
  /\ startGame(c)

\* the Imposters select of the admin's lobby view
handleImposterCount(c, newImposterCount) ==
  /\ cIsAdmin[c]
  /\ cRoom[c] # {}
  /\ Local(c).game_phase = "lobby"
  /\ newImposterCount >= 1
  /\ newImposterCount <= MaxOf(1, Local(c).settings.totalPlayers \div 2)
  /\ updateSettings(c, newImposterCount)

\* updateSettings({ totalPlayers }): the same merge into the hook's own copy
\* of the settings
updateSettingsTotalPlayers(c, totalPlayers) ==
  /\ cPlayerId[c] # NoId
  /\ cRoom[c] # {}
  /\ LET o == GameStore_updateRoom(backend, gameRooms, playerSessions, HookRoomCode,
                 [settings |-> [Local(c).settings EXCEPT !.totalPlayers = totalPlayers]], now)
         updatedRoom == GameStore_getRoom(backend, o.rooms, HookRoomCode)
     IN /\ updatedRoom # {}
        /\ gameRooms' = o.rooms
        /\ playerSessions' = o.sessions
        /\ cRoom' = [cRoom EXCEPT ![c] = updatedRoom]
  /\ UNCHANGED <<backend, cleanupInterval, swept, now, nextId, ret>>
  /\ UNCHANGED <<cIsAdmin, cPlayerId, voteCalls, startTimer, revealTimer, joinCalls, conn>>

\* the Total Players select used from the admin's own lobby view
handleTotalPlayersSelect(c, totalPlayers) ==
  /\ cIsAdmin[c]
  /\ cRoom[c] # {}
  /\ Local(c).game_phase = "lobby"
  /\ updateSettingsTotalPlayers(c, totalPlayers)

\* the page's effect on room.settings: after the render that shows settings
\* with too many imposters (or none) it writes the nearest valid count
adjustImposterCount(c) ==
  /\ cIsAdmin[c]
  /\ cRoom[c] # {}
  /\ LET currentTotalPlayers == Local(c).settings.totalPlayers
         currentImposterCount == Local(c).settings.imposterCount
         maxAllowedImposters == MaxOf(1, currentTotalPlayers \div 2)
     IN IF currentImposterCount > maxAllowedImposters
          THEN updateSettings(c, maxAllowedImposters)
          ELSE /\ currentImposterCount < 1 /\ currentTotalPlayers >= 2
               /\ updateSettings(c, 1)

\* the Submit Vote button of the voting view: the list offers the players of
\* the page's room other than the caller (p.isEliminated is never set, so the
\* list keeps the eliminated ones); the button stays live while a call runs
handleSubmitVote(c, selectedVote) ==
  /\ cRoom[c] # {}
  /\ Local(c).game_phase = "voting"
  /\ selectedVote # cPlayerId[c]
  /\ submitVoteCall(c, selectedVote)

\* ---------------------------------------------------------- specifications
Init ==
  /\ backend \in Backends
  /\ gameRooms = EmptyMap
  /\ playerSessions = EmptyMap
  /\ cleanupInterval = FALSE
  /\ swept = FALSE
  /\ now = 0
  /\ nextId = 1
  /\ ret = Ret("init", TRUE, NoId, "")
  /\ cIsAdmin = [c \in Clients |-> FALSE]
  /\ cPlayerId = [c \in Clients |-> NoId]
  /\ cRoom = [c \in Clients |-> {}]
  /\ voteCalls = [c \in Clients |-> << >>]
  /\ startTimer = [c \in Clients |-> 0]
  /\ revealTimer = [c \in Clients |-> 0]
  /\ joinCalls = [c \in Clients |-> {}]
  /\ conn = [c \in Clients |-> ConnNew]

\* the store under arbitrary calls of its API, the clock and the sweep
Next ==
  \/ \E roomCode \in CodeInputs, playerName \in NameInputs : CreateRoom(roomCode, playerName)
  \/ \E roomCode \in CodeInputs, playerName \in NameInputs : JoinRoom(roomCode, playerName)
  \/ \E roomCode \in CodeInputs, playerId \in PlayerIds : RemovePlayer(roomCode, playerId)
  \/ \E playerId \in PlayerIds : Heartbeat(playerId)
  \/ Tick
  \/ Sweep

Spec == Init /\ [][Next]_vars

\* the clients share a room through the persistent backend
GameInit == Init /\ backend = "supabase"

\* three clients in the lobby, up to the start of the game
LobbyNext ==
  \/ \E c \in Clients : CreateAndConnect(c)
  \/ \E c \in Clients : JoinAndConnect(c)
  \/ \E c \in Clients : Refresh(c)
  \/ \E c \in Clients, imposterCount \in ImposterCountInputs : handleImposterCount(c, imposterCount)
  \/ \E c \in Clients : handleStartGame(c)
  \/ \E c \in Clients : StartTimerFire(c)

LobbySpec == GameInit /\ [][LobbyNext]_vars

\* two clients playing a whole game
Table == {"c1", "c2"}

GameNext ==
  \/ \E c \in Table : CreateAndConnect(c)
  \/ \E c \in Table : JoinAndConnect(c)
  \/ \E c \in Table : Refresh(c)
  \/ \E c \in Table : handleStartGame(c)
  \/ \E c \in Table : StartTimerFire(c)
  \/ \E c \in Table, clue \in ClueInputs : submitClue(c, clue)
  \/ \E c \in Table, selectedVote \in PlayerIds : handleSubmitVote(c, selectedVote)
  \/ \E c \in Table : submitVoteRun(c)
  \/ \E c \in Table : RevealTimerFire(c)
  \/ \E c \in Table : leaveRoom(c)

GameSpec == GameInit /\ [][GameNext]_vars

\* the name the n-th player of a drawn room joined under
SeatName(n) ==
  CASE n = 1 -> "Alice" [] n = 2 -> "Bob" [] n = 3 -> "Cara" [] n = 4 -> "Dan" [] OTHER -> "Eve"

\* the n players createRoom and joinRoom seated and startGame dealt words to
DealtPlayers(n, pair, imposterIndices) ==
  [i \in 1..n |->
     [NewPlayer(i, SeatName(i), i = 1, 0) EXCEPT
        !.word = IF i \in imposterIndices THEN pair.imposterWord ELSE pair.majorityWord]]

\* ... in a round in which everyone still in has submitted a clue; the
\* players of eliminated went out in the rounds before, their clue as it was
CluedPlayers(n, pair, imposterIndices, eliminated) ==
  [i \in 1..n |->
     [DealtPlayers(n, pair, imposterIndices)[i] EXCEPT
        !.clue = "hint", !.has_submitted_clue = TRUE, !.is_eliminated = i \in eliminated]]

\* ... and after every player still in has voted, for ballots[its id]
VotedPlayers(n, pair, imposterIndices, eliminated, ballots) ==
  [i \in 1..n |->
     [CluedPlayers(n, pair, imposterIndices, eliminated)[i] EXCEPT
        !.votes = Cardinality({v \in DOMAIN ballots : ballots[v] = i}),
        !.has_voted = i \in DOMAIN ballots]]

\* the room of these players in the voting phase
VotingRoom(players, imposterCount, round) ==
  [NewRoom(HookRoomCode, players, 0) EXCEPT
     !.settings = [DefaultSettings EXCEPT !.imposterCount = imposterCount],
     !.game_phase = "voting", !.round = round]

\* the room as the last submitVote of the round leaves it
RevealRoom(players, imposterCount, round) ==
  [VotingRoom(players, imposterCount, round) EXCEPT
     !.game_phase = "reveal_votes", !.time_left = 7,
     !.voteCounts = VoteCountsForDisplay(players)]

\* the player id of each client in a drawn room: the order they joined in
ClientSeat == [c \in Clients |-> CASE c = "c1" -> 1 [] c = "c2" -> 2 [] OTHER -> 3]

\* the state in which the store holds room and the clients of its first
\* players, the first of them the admin, have it as their room state
Connected(room) ==
  /\ backend = "supabase"
  /\ gameRooms = MapSet(EmptyMap, HookRoomCode, room)
  /\ playerSessions = EmptyMap
  /\ cleanupInterval = FALSE
  /\ swept = FALSE
  /\ now = 0
  /\ nextId = Len(room.players) + 1
  /\ ret = Ret("init", TRUE, NoId, "")
  /\ cIsAdmin = [c \in Clients |-> c = "c1"]
  /\ cPlayerId = [c \in Clients |->
       IF ClientSeat[c] <= Len(room.players) THEN ClientSeat[c] ELSE NoId]
  /\ cRoom = [c \in Clients |-> IF ClientSeat[c] <= Len(room.players) THEN {room} ELSE {}]
  /\ voteCalls = [c \in Clients |-> << >>]
  /\ startTimer = [c \in Clients |-> 0]
  /\ joinCalls = [c \in Clients |-> {}]
  /\ conn = [c \in Clients |-> IF ClientSeat[c] <= Len(room.players) THEN ConnUp(backend) ELSE ConnNew]

\* three clients at the start of the vote of round 1, the player who joined
\* last holding the imposter word
VoteInit ==
  \E pair \in generateWords("easy") :
    \E imposterIndices \in ImposterIndexSets(3, ImposterCountFor(DefaultSettings, 3)) :
      /\ pair.majorityWord = "Dog"
      /\ imposterIndices = {3}
      /\ Connected(VotingRoom(CluedPlayers(3, pair, imposterIndices, {}),
                              DefaultImposterCount, 1))
      /\ revealTimer = [c \in Clients |-> 0]

VoteNext ==
  \/ \E c \in Clients : Refresh(c)
  \/ \E c \in Clients, selectedVote \in PlayerIds : handleSubmitVote(c, selectedVote)
  \/ \E c \in Clients : submitVoteRun(c)
  \/ \E c \in Clients : RevealTimerFire(c)
  \/ \E c \in Clients : RevealTimersOverlap(c)

VoteSpec == VoteInit /\ [][VoteNext]_vars

\* the game went on into the round drawn: nobody is out yet, or the reveal
\* timer found no winner with these players out
GoesOn(players) ==
  (\A i \in 1..Len(players) : ~players[i].is_eliminated) \/ EvaluateWinner(players) = Null

\* rooms of 2..MaxPlayers players in reveal_votes with the admin's reveal
\* timer armed: every deal, every set of players out, every vote of each
\* player still in for another player
RevealInit ==
  \E n \in 2..MaxPlayers, imposterCount \in ImposterCountInputs, pair \in generateWords("easy") :
    \E imposterIndices \in ImposterIndexSets(n, MinOf(imposterCount, n \div 2)),
       eliminated \in SUBSET (1..n) :
      /\ GoesOn(CluedPlayers(n, pair, imposterIndices, eliminated))
      /\ \E ballots \in [(1..n) \ eliminated -> 1..n] :
           /\ \A v \in DOMAIN ballots : ballots[v] # v
           /\ Connected(RevealRoom(VotedPlayers(n, pair, imposterIndices, eliminated, ballots),
                                   imposterCount, 1 + Cardinality(eliminated)))
           /\ revealTimer = [c \in Clients |-> IF c = "c1" THEN 1 ELSE 0]

RevealNext == \E c \in Clients : RevealTimerFire(c)

RevealSpec == RevealInit /\ [][RevealNext]_vars

\* the players of a round under way: those of eliminated are out, those of
\* clued have handed in their clue, the others still in have none
CluePlayers(n, pair, imposterIndices, eliminated, clued) ==
  [i \in 1..n |->
     [DealtPlayers(n, pair, imposterIndices)[i] EXCEPT
        !.clue = IF i \in eliminated \cup clued THEN "hint" ELSE "",
        !.has_submitted_clue = i \in eliminated \cup clued,
        !.is_eliminated = i \in eliminated]]

\* the room of these players in simultaneous_clues
ClueRoom(players, imposterCount, round) ==
  [VotingRoom(players, imposterCount, round) EXCEPT
     !.game_phase = "simultaneous_clues", !.time_left = 20]

\* rooms of 2..MaxPlayers players in simultaneous_clues: every deal of the
\* pair Dog / Wolf, every set of players out, every set of clues handed in
\* but the full one
ClueInit ==
  \E n \in 2..MaxPlayers, imposterCount \in ImposterCountInputs, pair \in generateWords("easy") :
    \E imposterIndices \in ImposterIndexSets(n, MinOf(imposterCount, n \div 2)),
       eliminated \in SUBSET (1..n) :
      /\ pair.majorityWord = "Dog"
      /\ GoesOn(CluedPlayers(n, pair, imposterIndices, eliminated))
      /\ \E clued \in SUBSET ((1..n) \ eliminated) :
           /\ clued # (1..n) \ eliminated
           /\ Connected(ClueRoom(CluePlayers(n, pair, imposterIndices, eliminated, clued),
                                 imposterCount, 1 + Cardinality(eliminated)))
           /\ revealTimer = [c \in Clients |-> 0]

ClueNext ==
  \/ \E c \in Clients : Refresh(c)
  \/ \E c \in Clients : submitClue(c, "tip")

ClueSpec == ClueInit /\ [][ClueNext]_vars

\* a room of MaxPlayers players in the vote of round 2: the admin holds the
\* imposter word, the second player went out in round 1, and the players
\* after them, whose pages take no step here, have voted already
LaterVoteInit ==
  \E pair \in generateWords("easy"), ballots \in [3..MaxPlayers -> {1, 2}] :
    /\ pair.majorityWord = "Dog"
    /\ GoesOn(CluedPlayers(MaxPlayers, pair, {1}, {2}))
    /\ Connected(VotingRoom(VotedPlayers(MaxPlayers, pair, {1}, {2}, ballots), 1, 2))
    /\ revealTimer = [c \in Clients |-> 0]

\* the vote of a later round at the pages of the first two players, who vote
\* or leave
LaterVoteNext ==
  \/ \E c \in Table : Refresh(c)
  \/ \E c \in Table, selectedVote \in PlayerIds : handleSubmitVote(c, selectedVote)
  \/ \E c \in Table : submitVoteRun(c)
  \/ \E c \in Table : RevealTimerFire(c)
  \/ \E c \in Table : leaveRoom(c)

LaterVoteSpec == LaterVoteInit /\ [][LaterVoteNext]_vars

\* the game of two clients with what runs without a player doing anything:
\* the timer callbacks fire and the polls and change events arrive
GameFairSpec ==
  /\ GameSpec
  /\ WF_vars(\E c \in Table : StartTimerFire(c))
  /\ WF_vars(\E c \in Table : RevealTimerFire(c))
  /\ WF_vars(\E c \in Table : Refresh(c))

\* from the reveal on: the game ends or goes on, the admin restarts it from
\* results, players leave
RestartNext ==
  \/ \E c \in Clients : RevealTimerFire(c)
  \/ \E c \in Clients : Refresh(c)
  \/ \E c \in Clients : restartGame(c)
  \/ \E c \in Clients : leaveRoom(c)

RestartSpec == RevealInit /\ [][RestartNext]_vars

\* rooms being filled: the admin creates the room and sets its size, players
\* join; on the persistent backend a join is a select and a later insert, on
\* the in-memory backend it runs in one piece
JoinNext ==
  \/ \E roomCode \in CodeInputs, playerName \in NameInputs : CreateRoom(roomCode, playerName)
  \/ \E totalPlayers \in TotalPlayersInputs : handleTotalPlayers(totalPlayers)
  \/ \E roomCode \in CodeInputs, playerName \in NameInputs :
       backend = "memory" /\ JoinRoom(roomCode, playerName)
  \/ \E c \in Table, roomCode \in CodeInputs, playerName \in NameInputs :
       JoinRoomSelect(c, roomCode, playerName)
  \/ \E c \in Table : JoinRoomInsert(c)

JoinSpec == Init /\ [][JoinNext]_vars

\* the connection of the hooks: mounting, the heartbeat interval with requests
\* that may fail, the error view's Retry, leaving
ConnNext ==
  \/ \E c \in Table : CreateAndConnect(c)
  \/ \E c \in Clients : connectToRoom(c)
  \/ \E totalPlayers \in TotalPlayersInputs : handleTotalPlayers(totalPlayers)
  \/ \E c \in Table, lost \in BOOLEAN : HeartbeatFire(c, lost)
  \/ \E c \in Clients : retry(c)
  \/ \E c \in Table : leaveRoom(c)

ConnSpec == Init /\ [][ConnNext]_vars

ConnFairSpec ==
  /\ ConnSpec
  /\ \A c \in Clients : WF_vars(connectToRoom(c))

\* the lobby with its settings card: the admin's two selects and the effect
\* that follows them
SettingsNext ==
  \/ \E c \in Table : CreateAndConnect(c)
  \/ \E c \in Table : JoinAndConnect(c)
  \/ \E c \in Table : Refresh(c)
  \/ \E c \in Table, imposterCount \in ImposterCountInputs : handleImposterCount(c, imposterCount)
  \/ \E c \in Table, totalPlayers \in TotalPlayersInputs : handleTotalPlayersSelect(c, totalPlayers)
  \/ \E c \in Table : adjustImposterCount(c)
  \/ \E c \in Table : leaveRoom(c)

SettingsSpec == GameInit /\ [][SettingsNext]_vars

\* two clients of one store, one fed by its subscription, one by polling once
\* its subscription has reported CHANNEL_ERROR, while the admin changes the
\* settings and starts the game
PushRefresh(c) == ~conn[c].pollingInterval /\ Refresh(c)

PollNext ==
  \/ \E c \in Table : CreateAndConnect(c)
  \/ \E c \in Table : JoinAndConnect(c)
  \/ \E c \in Table : ChannelError(c)
  \/ \E c \in Table : Poll(c)
  \/ \E c \in Table : PushRefresh(c)
  \/ \E c \in Table, imposterCount \in ImposterCountInputs : handleImposterCount(c, imposterCount)
  \/ \E c \in Table, totalPlayers \in TotalPlayersInputs : handleTotalPlayersSelect(c, totalPlayers)
  \/ \E c \in Table : adjustImposterCount(c)
  \/ \E c \in Table : handleStartGame(c)
  \/ \E c \in Table : StartTimerFire(c)

PollSpec == GameInit /\ [][PollNext]_vars

PollFairSpec ==
  /\ PollSpec
  /\ \A c \in Table : WF_vars(Poll(c)) /\ WF_vars(PushRefresh(c))

\* ------------------------------------------------------------------ claims
AdminCount(players) == Cardinality({i \in 1..Len(players) : players[i].is_admin})

\* C1: every room that holds at least one player has exactly one player with
\* is_admin = TRUE, after any sequence of createRoom, joinRoom, removePlayer
\* and sweep removals.
C1_ExactlyOneAdmin ==
  \A r \in DOMAIN gameRooms :
    Len(gameRooms[r].players) > 0 => AdminCount(gameRooms[r].players) = 1

\* the admins of the room under roomCode whose name is playerName, compared
\* case-insensitively
AdminsNamed(roomCode, playerName) ==
  IF toUpperCase(roomCode) \notin DOMAIN gameRooms THEN {}
  ELSE {p \in Range(gameRooms[toUpperCase(roomCode)].players) :
          p.is_admin /\ toLowerCase(p.name) = toLowerCase(playerName)}

PlayerIdsOf(players) == [i \in 1..Len(players) |-> players[i].id]

\* C2: createRoom called with the code of an existing room and the name of
\* that room's admin (compared case-insensitively) raises no error, returns
\* the admin's playerId and leaves the room with the same players, on the
\* in-memory backend as on the persistent one.
C2_CreateRoomAgain ==
  [][\A roomCode \in CodeInputs, playerName \in NameInputs :
       (AdminsNamed(roomCode, playerName) # {} /\ CreateRoom(roomCode, playerName))
         => /\ ret'.ok
            /\ \E p \in AdminsNamed(roomCode, playerName) : ret'.playerId = p.id
            /\ toUpperCase(roomCode) \in DOMAIN gameRooms'
            /\ PlayerIdsOf(gameRooms'[toUpperCase(roomCode)].players)
                 = PlayerIdsOf(gameRooms[toUpperCase(roomCode)].players)]_vars

\* the store holds the room of the hooks
InStore == HookRoomCode \in DOMAIN gameRooms

StoreRoom == gameRooms[HookRoomCode]

\* C3: a submitClue is accepted only while the store's room is in
\* simultaneous_clues, and a submitVote only while it is in voting, whatever
\* the caller's own room state shows; a call made in another phase is refused
\* and writes nothing.
C3_PhaseGuard ==
  [][\A c \in Clients :
       /\ \A clue \in ClueInputs :
            (InStore /\ StoreRoom.game_phase # "simultaneous_clues") => ~submitClue(c, clue)
       /\ \A votedPlayerId \in PlayerIds :
            (InStore /\ StoreRoom.game_phase # "voting") => ~submitVoteCall(c, votedPlayerId)]_vars

\* the words startGame hands out
MajorityWords ==
  {pair.majorityWord : pair \in generateWords("easy") \cup generateWords("medium") \cup generateWords("hard")}

ImposterWords ==
  {pair.imposterWord : pair \in generateWords("easy") \cup generateWords("medium") \cup generateWords("hard")}

Holding(players, words) == Cardinality({i \in 1..Len(players) : players[i].word \in words})

\* C4: when the reveal timer has applied the elimination, with M and I the
\* numbers of active players holding the majority word and the imposter word
\* handed out at game start: gameWinner is majority if I = 0, imposters if
\* M = 0 or I >= M, and otherwise the game goes on into the next round.
C4_Winner ==
  [][\A c \in Clients :
       (InStore /\ StoreRoom.game_phase = "reveal_votes" /\ RevealTimerFire(c))
         => LET after == gameRooms'[HookRoomCode]
                M == Holding(ActivePlayers(after.players), MajorityWords)
                I == Holding(ActivePlayers(after.players), ImposterWords)
            IN IF I = 0 THEN after.gameWinner = "majority"
               ELSE IF M = 0 \/ I >= M THEN after.gameWinner = "imposters"
               ELSE after.gameWinner = Null /\ after.game_phase = "simultaneous_clues"]_vars

EliminatedIds(players) == {players[i].id : i \in {j \in 1..Len(players) : players[j].is_eliminated}}

\* the active players whose revealed vote count no active player exceeds
Leaders(players, voteCounts) ==
  {p \in Range(ActivePlayers(players)) :
     \A q \in Range(ActivePlayers(players)) : VotesOf(voteCounts, q.id) <= VotesOf(voteCounts, p.id)}

\* C5: at the end of reveal_votes, if exactly one active player holds the
\* maximum vote count and that maximum is above 0, that player and no other
\* becomes eliminated; on a tie for the maximum, or with 0 votes for every
\* active player, nobody becomes eliminated.
C5_Tally ==
  [][\A c \in Clients :
       (InStore /\ StoreRoom.game_phase = "reveal_votes" /\ RevealTimerFire(c))
         => LET leaders == Leaders(StoreRoom.players, StoreRoom.voteCounts)
                before == EliminatedIds(StoreRoom.players)
                after == EliminatedIds(gameRooms'[HookRoomCode].players)
            IN IF Cardinality(leaders) = 1
                    /\ \A p \in leaders : VotesOf(StoreRoom.voteCounts, p.id) > 0
                 THEN after = before \cup {p.id : p \in leaders}
                 ELSE after = before]_vars

\* a reveal has put out the one player who led the vote, and ended the game
C5_Witness ==
  /\ InStore
  /\ StoreRoom.game_phase = "results"
  /\ StoreRoom.lastEliminatedPlayerId # NoId
  /\ StoreRoom.lastEliminatedPlayerId \in EliminatedIds(StoreRoom.players)
  /\ VotesOf(StoreRoom.voteCounts, StoreRoom.lastEliminatedPlayerId) > 0
  /\ \A p \in Range(StoreRoom.players) :
       p.id # StoreRoom.lastEliminatedPlayerId
         => VotesOf(StoreRoom.voteCounts, p.id)
              < VotesOf(StoreRoom.voteCounts, StoreRoom.lastEliminatedPlayerId)

\* C6: once every active player has voted and the room is in reveal_votes,
\* a reveal timer is pending that takes the room on to results or to the next
\* round, whichever player, admin or not, cast the last vote.
C6_RevealTimerArmed ==
  (InStore /\ StoreRoom.game_phase = "reveal_votes") => \E c \in Clients : revealTimer[c] > 0

StorePlayer(id) == CHOOSE p \in FindPlayer(StoreRoom.players, id) : TRUE

\* C7: every accepted submitVote raises the votes of its target by exactly 1,
\* for every interleaving of the submitVote calls of different clients.
C7_EachVoteAddsOne ==
  [][\A c \in Clients :
       (/\ InStore
        /\ voteCalls[c] # << >>
        /\ FindPlayer(StoreRoom.players, Head(voteCalls[c]).voter) # {}
        /\ FindPlayer(StoreRoom.players, Head(voteCalls[c]).target) # {}
        /\ ~StorePlayer(Head(voteCalls[c]).voter).has_voted
        /\ submitVoteRun(c))
         => \E p \in FindPlayer(gameRooms'[HookRoomCode].players, Head(voteCalls[c]).target) :
              p.votes = StorePlayer(Head(voteCalls[c]).target).votes + 1]_vars

VotesById(players) == [i \in 1..Len(players) |-> <<players[i].id, players[i].votes>>]

\* C8: within one round a player's vote is counted at most once: a submitVote
\* of a player the store already shows as having voted changes no player's
\* votes, also when it was issued before the caller's room state caught up.
C8_OneVotePerRound ==
  [][\A c \in Clients :
       (/\ InStore
        /\ voteCalls[c] # << >>
        /\ FindPlayer(StoreRoom.players, Head(voteCalls[c]).voter) # {}
        /\ StorePlayer(Head(voteCalls[c]).voter).has_voted
        /\ submitVoteRun(c))
         => VotesById(gameRooms'[HookRoomCode].players) = VotesById(StoreRoom.players)]_vars

StartedPhases == {"starting", "simultaneous_clues", "voting", "reveal_votes", "results"}

\* C9: whenever the store shows the room in starting or a later phase of the
\* game, every player of the room has a non-empty word, for every
\* interleaving of startGame with the joinRoom calls before its phase write.
C9_WordsBeforePhase ==
  (InStore /\ StoreRoom.game_phase \in StartedPhases)
    => \A p \in Range(StoreRoom.players) : p.word # ""

\* C10: after startGame on a room of playerCount >= 2 players, the players
\* holding the imposter word number min(settings.imposterCount,
\* floor(playerCount / 2)) and all the others hold the majority word, for
\* every outcome of the shuffle.
C10_ImposterCount ==
  [][\A c \in Clients :
       (InStore /\ Len(StoreRoom.players) >= 2 /\ startGame(c))
         => LET after == gameRooms'[HookRoomCode]
                playerCount == Len(after.players)
                imposterCount == MinOf(after.settings.imposterCount, playerCount \div 2)
            IN \E pair \in generateWords(after.settings.difficulty) :
                 /\ CountWord(after.players, pair.imposterWord) = imposterCount
                 /\ CountWord(after.players, pair.majorityWord) = playerCount - imposterCount]_vars

\* C11: a reveal that ends without a winner raises round by exactly 1 and
\* moves the room to simultaneous_clues; every player still in then has an
\* empty clue and has_submitted_clue = FALSE, and the clue and
\* has_submitted_clue of every eliminated player are as before the reveal.
C11_NextRound ==
  [][\A c \in Clients :
       (/\ InStore
        /\ StoreRoom.game_phase = "reveal_votes"
        /\ RevealTimerFire(c)
        /\ gameRooms'[HookRoomCode].gameWinner = Null)
         => LET before == StoreRoom
                after == gameRooms'[HookRoomCode]
            IN /\ after.round = before.round + 1
               /\ after.game_phase = "simultaneous_clues"
               /\ Len(after.players) = Len(before.players)
               /\ \A i \in 1..Len(after.players) :
                    IF after.players[i].is_eliminated
                      THEN /\ after.players[i].clue = before.players[i].clue
                           /\ after.players[i].has_submitted_clue
                                = before.players[i].has_submitted_clue
                      ELSE /\ after.players[i].clue = ""
                           /\ ~after.players[i].has_submitted_clue]_vars

\* a reveal has opened a later round: the players still in start it without
\* a clue, a player who is out keeps the clue of an earlier round
C11_Witness ==
  /\ InStore
  /\ StoreRoom.game_phase = "simultaneous_clues"
  /\ StoreRoom.round >= 2
  /\ \E p \in Range(StoreRoom.players) : p.is_eliminated /\ p.has_submitted_clue /\ p.clue # ""
  /\ \E p \in Range(StoreRoom.players) : ~p.is_eliminated
  /\ \A p \in Range(StoreRoom.players) :
       ~p.is_eliminated => (p.clue = "" /\ ~p.has_submitted_clue)

\* the changes of phase the game is made of
PhaseEdges ==
  {<<"lobby", "starting">>, <<"starting", "simultaneous_clues">>,
   <<"simultaneous_clues", "voting">>, <<"voting", "reveal_votes">>,
   <<"reveal_votes", "results">>, <<"reveal_votes", "simultaneous_clues">>,
   <<"results", "lobby">>}

\* C12: the phase of the store's room changes only along lobby -> starting
\* -> simultaneous_clues -> voting -> reveal_votes -> (results or
\* simultaneous_clues) and results -> lobby, whatever room state the clients
\* act on and whenever the timers fire.
C12_PhaseEdges ==
  [][(InStore /\ HookRoomCode \in DOMAIN gameRooms')
       => \/ gameRooms'[HookRoomCode].game_phase = StoreRoom.game_phase
          \/ <<StoreRoom.game_phase, gameRooms'[HookRoomCode].game_phase>> \in PhaseEdges]_vars

\* C13: in simultaneous_clues, the submitClue after which every player still
\* in has has_submitted_clue = TRUE moves the room to voting with time_left 0
\* in the same step; a submitClue that leaves a player still in without a
\* clue leaves the phase as it is.
C13_AllCluesIn ==
  [][\A c \in Clients, clue \in ClueInputs :
       (InStore /\ StoreRoom.game_phase = "simultaneous_clues" /\ submitClue(c, clue))
         => LET after == gameRooms'[HookRoomCode]
                stillIn == Range(ActivePlayers(after.players))
            IN IF stillIn # {} /\ \A p \in stillIn : p.has_submitted_clue
                 THEN after.game_phase = "voting" /\ after.time_left = 0
                 ELSE after.game_phase = "simultaneous_clues"]_vars

\* the last clue of a round with a player out has opened the vote
C13_Witness ==
  /\ InStore
  /\ StoreRoom.game_phase = "voting"
  /\ StoreRoom.time_left = 0
  /\ \E p \in Range(StoreRoom.players) : p.is_eliminated
  /\ \E p \in Range(StoreRoom.players) : ~p.is_eliminated /\ p.clue = "tip"
  /\ \A p \in Range(StoreRoom.players) : ~p.is_eliminated => p.has_submitted_clue

\* C14: a room in simultaneous_clues does not stay there for ever when a
\* player still in never submits a clue: a timer takes it on to voting.
C14_ClueTimer ==
  (InStore /\ StoreRoom.game_phase = "simultaneous_clues")
    ~> (~InStore \/ StoreRoom.game_phase # "simultaneous_clues")

\* C15: a timer callback that wakes when the store's room is no longer in
\* the phase the timer was set for (the start timer outside starting, the
\* reveal timer outside reveal_votes) writes nothing to the room or to a
\* player.
C15_StaleTimer ==
  [][\A c \in Clients :
       /\ (InStore /\ StoreRoom.game_phase # "starting" /\ StartTimerFire(c))
            => UNCHANGED <<gameRooms, playerSessions>>
       /\ (InStore /\ StoreRoom.game_phase # "reveal_votes" /\ RevealTimerFire(c))
            => UNCHANGED <<gameRooms, playerSessions>>]_vars

\* a timer is about to wake in a room that an earlier timer of its kind has
\* taken on
C15_Witness ==
  /\ InStore
  /\ \E c \in Clients :
       \/ startTimer[c] > 0 /\ StoreRoom.game_phase = "simultaneous_clues"
       \/ revealTimer[c] > 0 /\ StoreRoom.game_phase \in {"results", "simultaneous_clues"}

\* C16: a restartGame that runs while the store's room is in results leaves
\* it in the lobby with round 1, with gameWinner, eliminationResult,
\* lastEliminatedPlayerId and voteCounts null, and with every player's word
\* and clue empty, votes 0 and is_eliminated, has_voted, has_submitted_clue
\* FALSE; the settings, the players and their admin flags are as before.
C16_Restart ==
  [][\A c \in Clients :
       (InStore /\ StoreRoom.game_phase = "results" /\ restartGame(c))
         => LET before == StoreRoom
                after == gameRooms'[HookRoomCode]
            IN /\ after.game_phase = "lobby"
               /\ after.round = 1
               /\ after.gameWinner = Null
               /\ after.eliminationResult = Null
               /\ after.lastEliminatedPlayerId = NoId
               /\ after.voteCounts = NoVotes
               /\ after.settings = before.settings
               /\ Len(after.players) = Len(before.players)
               /\ \A i \in 1..Len(after.players) :
                    /\ after.players[i].id = before.players[i].id
                    /\ after.players[i].name = before.players[i].name
                    /\ after.players[i].is_admin = before.players[i].is_admin
                    /\ after.players[i].word = ""
                    /\ after.players[i].clue = ""
                    /\ after.players[i].votes = 0
                    /\ ~after.players[i].is_eliminated
                    /\ ~after.players[i].has_voted
                    /\ ~after.players[i].has_submitted_clue]_vars

\* a finished game has been restarted: the room is back in the lobby with
\* its players, none of them out, none holding a word
C16_Witness ==
  /\ InStore
  /\ StoreRoom.game_phase = "lobby"
  /\ StoreRoom.round = 1
  /\ StoreRoom.gameWinner = Null
  /\ Len(StoreRoom.players) >= 3
  /\ \A p \in Range(StoreRoom.players) : p.word = "" /\ ~p.is_eliminated

\* the players of the room under the hooks' code, none when there is no room
StorePlayers == IF InStore THEN StoreRoom.players ELSE << >>

\* C17: a joinRoom never adds a player to a room that holds
\* settings.totalPlayers players or more, so that no interleaving of joinRoom
\* calls takes the number of players above settings.totalPlayers.
C17_RoomFull ==
  [][(InStore /\ HookRoomCode \in DOMAIN gameRooms'
        /\ Len(gameRooms'[HookRoomCode].players) > Len(StoreRoom.players))
       => Len(StoreRoom.players) < StoreRoom.settings.totalPlayers]_vars

\* C18: no two players of a room have names that are equal when compared
\* case-insensitively, for every interleaving of createRoom and joinRoom.
C18_UniqueNames ==
  \A i, j \in 1..Len(StorePlayers) :
    i # j => toLowerCase(StorePlayers[i].name) # toLowerCase(StorePlayers[j].name)

\* C19: no room of the store has zero players: when removePlayer or the sweep
\* removes the last player of a room the room is deleted with it.
C19_NoEmptyRoom ==
  \A roomCode \in DOMAIN gameRooms : Len(gameRooms[roomCode].players) > 0

\* the store and the result a call leaves
Left(out) == /\ gameRooms' = out.rooms
             /\ playerSessions' = out.sessions
             /\ ret'.ok = out.ret.ok
             /\ ret'.playerId = out.ret.playerId

\* C20: createRoom, joinRoom, getRoom and removePlayer called with a room code
\* leave the store and give the result that the same call with the upper-cased
\* code does.
C20_CodeCase ==
  [][\A roomCode \in CodeInputs :
       /\ GameStore_getRoom(backend, gameRooms, roomCode)
            = GameStore_getRoom(backend, gameRooms, toUpperCase(roomCode))
       /\ \A playerName \in NameInputs :
            /\ CreateRoom(roomCode, playerName)
                 => Left(GameStore_createRoom(backend, gameRooms, playerSessions,
                           toUpperCase(roomCode), playerName, nextId, now))
            /\ JoinRoom(roomCode, playerName)
                 => Left(GameStore_joinRoom(backend, gameRooms, playerSessions,
                           toUpperCase(roomCode), playerName, nextId, now))
       /\ \A playerId \in PlayerIds :
            RemovePlayer(roomCode, playerId)
              => \E first \in FirstRows(backend, gameRooms, roomCode) :
                   Left(GameStore_removePlayer(backend, gameRooms, playerSessions,
                          toUpperCase(roomCode), playerId, first, now))]_vars

\* the last_seen the store holds for a player, as a set
LastSeenOf(rooms, playerId) ==
  UNION {{rooms[roomCode].players[i].last_seen :
            i \in {j \in 1..Len(rooms[roomCode].players) : rooms[roomCode].players[j].id = playerId}} :
         roomCode \in DOMAIN rooms}

\* C21: heartbeat(playerId) returns false when no room holds a player of that
\* id, and returns true and sets the player's last_seen to the time of the
\* call when one does, on either backend.
C21_Heartbeat ==
  [][\A playerId \in PlayerIds :
       Heartbeat(playerId) =>
         LET exists == LastSeenOf(gameRooms, playerId) # {} IN
         /\ ret'.ok = exists
         /\ exists => LastSeenOf(gameRooms', playerId) = {now}]_vars

\* the hook of c shows the connection as lost
DeclaredLost(k) == ~k.isConnected /\ k.error = HeartbeatLost /\ ~k.heartbeatInterval

\* C22: a heartbeat that succeeds sets the failure count to 0, one that fails
\* adds one to it; the hook declares the connection lost (isConnected false,
\* the error set, the heartbeat interval cleared) at the third failure in a
\* row and at no other step, and that step leaves the hook's room and
\* playerId as they were.
C22_HeartbeatLoss ==
  [][\A c \in Clients :
       /\ \A lost \in BOOLEAN :
            HeartbeatFire(c, lost) =>
              /\ ret'.ok => conn'[c].heartbeatFailures = 0
              /\ ~ret'.ok => conn'[c].heartbeatFailures = conn[c].heartbeatFailures + 1
              /\ DeclaredLost(conn'[c]) <=> (~ret'.ok /\ conn[c].heartbeatFailures = 2)
              /\ cRoom'[c] = cRoom[c] /\ cPlayerId'[c] = cPlayerId[c]
       /\ (DeclaredLost(conn'[c]) /\ ~DeclaredLost(conn[c]))
            => /\ ret'.op = "heartbeat" /\ ~ret'.ok
               /\ conn[c].heartbeatFailures = 2]_vars

\* the connection of a client has been declared lost, its room still shown
C22_Witness ==
  \E c \in Clients :
    /\ DeclaredLost(conn[c])
    /\ conn[c].heartbeatFailures = 3
    /\ cRoom[c] # {}
    /\ cPlayerId[c] # NoId

\* C23: a hook that retry has put back in the connecting state eventually
\* leaves it: the connection is up again or a new error is reported.
C23_Retry ==
  \A c \in Clients :
    (conn[c].isConnecting /\ ~conn[c].effectDue) ~> ~conn[c].isConnecting

\* C24: the settings of the room change only in a step taken while the
\* store's phase is lobby, by a client whose player is the room's admin.
C24_SettingsGuard ==
  [][(InStore /\ HookRoomCode \in DOMAIN gameRooms'
        /\ gameRooms'[HookRoomCode].settings # StoreRoom.settings)
       => /\ StoreRoom.game_phase = "lobby"
          /\ \E c \in Clients :
               /\ cRoom'[c] = {gameRooms'[HookRoomCode]}
               /\ \E p \in FindPlayer(StoreRoom.players, cPlayerId[c]) : p.is_admin]_vars

\* C25: whenever the room's settings have totalPlayers >= 2 they have
\* 1 <= imposterCount < totalPlayers, in every state of the store, the one
\* directly after an updateSettings that lowers totalPlayers included.
C25_ImposterRange ==
  (InStore /\ StoreRoom.settings.totalPlayers >= 2)
    => /\ 1 <= StoreRoom.settings.imposterCount
       /\ StoreRoom.settings.imposterCount < StoreRoom.settings.totalPlayers

\* C26: a connected client, polling or fed by its subscription, again and
\* again shows the room that the store holds: once the store stops changing
\* the polling client and the push client show the store's room, whatever
\* fields the last change touched.
C26_PollingSnapshot ==
  \A c \in Table :
    []<>(~conn[c].isConnected \/ ~InStore \/ cRoom[c] = {StoreRoom})

\* a polling client has just published the store's room: two players in the
\* lobby, the settings no longer the default ones
C26_Witness ==
  \E c \in Table :
    /\ conn[c].pollingInterval
    /\ ret.op = "poll" /\ ret.playerId = cPlayerId[c]
    /\ InStore /\ cRoom[c] = {StoreRoom}
    /\ StoreRoom.settings.totalPlayers # DefaultTotalPlayers
    /\ StoreRoom.game_phase = "lobby"
    /\ Len(StoreRoom.players) = 2

\* the ids of the players of a room
IdsOf(players) == {players[i].id : i \in 1..Len(players)}

\* C27: a startGame one of whose player writes fails (the player is no
\* longer in the store's room) leaves the room and all its players as they
\* were before the call.
C27_AllOrNothing ==
  [][\A c \in Table :
       (/\ InStore
        /\ cRoom[c] # {}
        /\ ~(IdsOf(Local(c).players) \subseteq IdsOf(StoreRoom.players))
        /\ handleStartGame(c))
         => gameRooms' = gameRooms]_vars

\* C28: the writes of a submitVote or a submitClue whose player is no longer
\* in the store's room change neither the room nor any of its players.
C28_GonePlayer ==
  [][\A c \in Table :
       /\ (/\ InStore
           /\ voteCalls[c] # << >>
           /\ Head(voteCalls[c]).voter \notin IdsOf(StoreRoom.players)
           /\ submitVoteRun(c))
            => gameRooms' = gameRooms
       /\ \A clue \in ClueInputs :
            (/\ InStore
             /\ cPlayerId[c] \notin IdsOf(StoreRoom.players)
             /\ submitClue(c, clue))
              => gameRooms' = gameRooms]_vars

\* the words and the is_eliminated flags of the players of a room
WordsAndFlags(players) ==
  [i \in 1..Len(players) |->
     [id |-> players[i].id, word |-> players[i].word, is_eliminated |-> players[i].is_eliminated]]

\* C29: a startGame issued while the store's phase is not lobby, by a client
\* whose player is not the room's admin, or on a room of fewer than 2
\* players, changes no player's word or is_eliminated flag and leaves the
\* phase and the round as they were.
C29_StartGuard ==
  [][\A c \in Table :
       (/\ InStore
        /\ \/ StoreRoom.game_phase # "lobby"
           \/ Len(StoreRoom.players) < 2
           \/ ~(\E p \in FindPlayer(StoreRoom.players, cPlayerId[c]) : p.is_admin)
        /\ handleStartGame(c))
         => /\ HookRoomCode \in DOMAIN gameRooms'
            /\ WordsAndFlags(gameRooms'[HookRoomCode].players) = WordsAndFlags(StoreRoom.players)
            /\ gameRooms'[HookRoomCode].game_phase = StoreRoom.game_phase
            /\ gameRooms'[HookRoomCode].round = StoreRoom.round]_vars

\* the index of the player who joined first: ids are handed out in the order
\* of the joins
FirstJoined(players) ==
  CHOOSE i \in 1..Len(players) : \A j \in 1..Len(players) : players[i].id <= players[j].id

\* C30: a leaveRoom that takes the admin out of a room which keeps other
\* players leaves exactly one admin, and it is the remaining player who
\* joined first, on either backend.
C30_FirstRemaining ==
  [][\A c \in Table :
       (/\ InStore
        /\ \E p \in FindPlayer(StoreRoom.players, cPlayerId[c]) : p.is_admin
        /\ Len(StoreRoom.players) >= 2
        /\ leaveRoom(c))
         => /\ HookRoomCode \in DOMAIN gameRooms'
            /\ AdminCount(gameRooms'[HookRoomCode].players) = 1
            /\ gameRooms'[HookRoomCode].players[FirstJoined(gameRooms'[HookRoomCode].players)].is_admin]_vars

\* C31: in a room in results the player who holds is_admin in the store can
\* restart the game from an up-to-date page, also a player who became admin
\* by promotion when the first admin left.
C31_AdminRestarts ==
  \A c \in Clients :
    (/\ InStore
     /\ StoreRoom.game_phase = "results"
     /\ cRoom[c] = {StoreRoom}
     /\ conn[c].isConnected
     /\ \E p \in FindPlayer(StoreRoom.players, cPlayerId[c]) : p.is_admin)
      => restartGameAllowed(c)

\* C32: the room's voteCounts snapshot is non-empty only while the phase is
\* reveal_votes; in every other phase (lobby, word_reveal,
\* simultaneous_clues, voting, results) it is null or empty.
C32_VoteCountsOnlyInReveal ==
  InStore =>
    (StoreRoom.game_phase # "reveal_votes" => StoreRoom.voteCounts = NoVotes)

\* the players of the store's room that are out
OutIds(rooms) ==
  IF HookRoomCode \in DOMAIN rooms THEN EliminatedIds(rooms[HookRoomCode].players) ELSE {}

\* the players of the store's room
RoomIds(rooms) ==
  IF HookRoomCode \in DOMAIN rooms THEN IdsOf(rooms[HookRoomCode].players) ELSE {}

\* C33: within one game a player who is eliminated stays eliminated: no step
\* other than restartGame sets is_eliminated of a player of the room back to
\* false.
C33_EliminatedStays ==
  [][(\E c \in Clients : restartGame(c))
       \/ (OutIds(gameRooms) \cap RoomIds(gameRooms')) \subseteq OutIds(gameRooms')]_vars

\* a player is out and the reveal timer has taken the game into the next
\* round, clearing every player's votes on the way
C33_Witness ==
  /\ InStore
  /\ OutIds(gameRooms) # {}
  /\ StoreRoom.game_phase = "simultaneous_clues"
  /\ \A i \in 1..Len(StoreRoom.players) : ~StoreRoom.players[i].has_voted

\* votes and has_voted of every player of the store's room
VotesAndFlags(rooms) ==
  IF HookRoomCode \in DOMAIN rooms
    THEN [i \in 1..Len(rooms[HookRoomCode].players) |->
            <<rooms[HookRoomCode].players[i].id, rooms[HookRoomCode].players[i].votes,
              rooms[HookRoomCode].players[i].has_voted>>]
    ELSE << >>

\* C34: a vote is accepted only for an active player of the room: a
\* submitVote that names a player who is out, or an id that is not in the
\* room, changes no player's votes or has_voted.
C34_ActiveTarget ==
  [][\A c \in Clients :
       (/\ voteCalls[c] # << >>
        /\ Head(voteCalls[c]).target \notin (RoomIds(gameRooms) \ OutIds(gameRooms))
        /\ submitVoteRun(c))
         => VotesAndFlags(gameRooms') = VotesAndFlags(gameRooms)]_vars

\* C38: a submitVote by a player who is out is rejected: it changes no
\* player's votes or has_voted.
C38_EliminatedVoter ==
  [][\A c \in Clients :
       (/\ voteCalls[c] # << >>
        /\ Head(voteCalls[c]).voter \in OutIds(gameRooms)
        /\ Head(voteCalls[c]).target \in RoomIds(gameRooms) \ OutIds(gameRooms)
        /\ submitVoteRun(c))
         => VotesAndFlags(gameRooms') = VotesAndFlags(gameRooms)]_vars

\* C35: a round eliminates at most one player: from the room's entry into
\* reveal_votes to its leaving it at most one player goes out, also when two
\* reveal-timer callbacks of the round run with their reads and writes
\* interleaved.
C35_OneOutPerRound ==
  [][(InStore /\ StoreRoom.game_phase = "reveal_votes" /\ HookRoomCode \in DOMAIN gameRooms')
       => Cardinality(OutIds(gameRooms') \ OutIds(gameRooms)) <= 1]_vars

\* C36: when the players who had not voted leave during the vote, so that
\* every active player left in the room has voted, the room still goes on
\* to reveal_votes: the room is never left in voting with every active
\* player's vote in and no submitVote call under way that would count them.
C36_VoteCompletesAfterLeave ==
  ~(/\ InStore
    /\ StoreRoom.game_phase = "voting"
    /\ ActivePlayers(StoreRoom.players) # << >>
    /\ AllVoted(StoreRoom.players)
    /\ \A c \in Clients : voteCalls[c] = << >>)

RoundsBounded ==
  (/\ InStore
   /\ StoreRoom.game_phase \in {"simultaneous_clues", "voting", "reveal_votes"}
   /\ StoreRoom.round = 1 + Cardinality(OutIds(gameRooms)))
    => StoreRoom.round <= Len(StoreRoom.players) - 1

\* a reveal whose votes name one player to put out, with no submitVote call
\* under way, has a reveal timer pending that ends it
RevealEnds ==
  (/\ InStore
   /\ StoreRoom.game_phase = "reveal_votes"
   /\ PlayerToEliminate(StoreRoom.players, StoreRoom.voteCounts) # NoId
   /\ \A c \in Clients : voteCalls[c] = << >>)
    => \E c \in Clients : revealTimer[c] > 0

\* C39: a game of n players in which every reveal puts a player out (no tie,
\* no round without votes) reaches results after n - 1 rounds at most: no
\* such game is in a round beyond n - 1, and each of its reveals is ended
\* by a timer.
C39_ResultsWithinRounds == RoundsBounded /\ RevealEnds

====
